---- MODULE Spec2Model ----
\* Deployment identity-resolution and authentication orchestration of the
\* timdle CLI (DeployCommand, LoginCommand, TokenCacheService,
\* FabricApiService), modelled as a state machine of sequential invocations.
EXTENDS Integers, Sequences, FiniteSets, TLC

VARIABLES
    cacheFile,    \* ~/.timdle/auth.json: [kind, value]
    logicalMap,   \* ~/.timdle/logical-id-map.json: [kind, value], value: key |-> item id
    registry,     \* remote workspace items, in the service's listing order
    now,          \* DateTime.UtcNow, in minutes
    poll,         \* an accepted operation on its own: [script, outcome]
    model,        \* the local model folder: [platformName, platformLogicalId, databaseName]
    pc,           \* position of the running invocation
    cmd,          \* "deploy" | "login" | ""
    cli,          \* the command-line flags of the invocation
    env,          \* the process environment of the invocation
    config,       \* the in-memory AuthConfig of the invocation
    loc,          \* locals of FabricApiService.DeployAsync
    calls,        \* the remote calls of the invocation, in order
    io,           \* token requests, prompts and cache writes of the invocation
    result,       \* the structured result written by OutputResult / the console
    runs,         \* the number of invocations started
    find,         \* a LineNumberFinder query: [exists, content, itemName, itemType, answer]
    race,         \* two invocations at their cache files: [procs, events]
    last,         \* the deploy that a repeated deploy follows: [ran, itemId, registry, calls]
    world         \* "pristine": an empty workspace that only these deploys change
                  \* and services that answer; "shared": other users' items and
                  \* deletions, and calls that may fail; "unwritable": as
                  \* "shared", and cache files whose writes may fail

vars == <<cacheFile, logicalMap, registry, now, poll, model, pc, cmd, cli, env,
          config, loc, calls, io, result, runs, world, find, race, last>>

-----------------------------------------------------------------------------
\* Strings. "" stands for null and for the empty string, " " for a
\* whitespace-only string.

IsNullOrEmpty(s) == s = ""

IsNullOrWhiteSpace(s) == s \in {"", " "}

\* string.Trim on the strings of the model
Trim(s) == CASE s = " " -> ""
             [] s = " B " -> "B"
             [] OTHER -> s

\* string.ToLower on the strings of the model
ToLower(s) == CASE s = "A" -> "a"
                [] s = "B" -> "b"
                [] s = "C" -> "c"
                [] s = "P" -> "p"
                [] s = "Interactive" -> "interactive"
                [] s = "W1" -> "w1"
                [] s = "Operations" -> "operations"
                [] OTHER -> s

\* string.Equals(a, b, StringComparison.OrdinalIgnoreCase)
EqualsIgnoreCase(a, b) == ToLower(a) = ToLower(b)

-----------------------------------------------------------------------------
\* AuthConfig. A nullable DateTime is a set with at most one element; a
\* nullable AuthConfig is a sequence with at most one element.

EmptyConfig ==
    [mode |-> "", workspaceUrl |-> "", accessToken |-> "",
     accessTokenExpiresOn |-> {}, accountUsername |-> "", modelName |-> "",
     previousModelName |-> "", clientId |-> "", clientSecret |-> "",
     tenantId |-> ""]

Null == <<>>

RefreshBufferMinutes == 5

\* A freshness test that accepts a token expiring exactly at the buffer.
HasUsableAccessTokenAtBuffer(c, t) ==
    IF IsNullOrEmpty(c.accessToken) THEN FALSE
    ELSE IF c.accessTokenExpiresOn = {} THEN TRUE
    ELSE \E e \in c.accessTokenExpiresOn : e >= t + RefreshBufferMinutes

HasUsableAccessToken(c, t) ==
    IF IsNullOrEmpty(c.accessToken) THEN FALSE
    ELSE IF c.accessTokenExpiresOn = {} THEN TRUE
    ELSE \E e \in c.accessTokenExpiresOn : e > t + RefreshBufferMinutes

-----------------------------------------------------------------------------
\* Credential resolver (DeployCommand).

\* The values the operator types at a prompt (PromptRequired trims them).
PromptedWorkspaceUrl == "ws-prompt"
PromptedClientId == "cid-prompt"
PromptedTenantId == "tid-prompt"
PromptedSecret == "secret-prompt"

MergeMissing(target, source) ==
    IF source = Null THEN target
    ELSE LET s == source[1] IN
        [mode |-> IF IsNullOrWhiteSpace(target.mode) THEN s.mode ELSE target.mode,
         workspaceUrl |-> IF IsNullOrWhiteSpace(target.workspaceUrl)
                          THEN s.workspaceUrl ELSE target.workspaceUrl,
         accessToken |-> IF IsNullOrWhiteSpace(target.accessToken)
                         THEN s.accessToken ELSE target.accessToken,
         accessTokenExpiresOn |-> IF target.accessTokenExpiresOn = {}
                                  THEN s.accessTokenExpiresOn
                                  ELSE target.accessTokenExpiresOn,
         accountUsername |-> IF IsNullOrWhiteSpace(target.accountUsername)
                             THEN s.accountUsername ELSE target.accountUsername,
         modelName |-> target.modelName,
         previousModelName |->
             IF IsNullOrWhiteSpace(target.previousModelName)
             THEN (IF ~IsNullOrWhiteSpace(s.previousModelName)
                   THEN s.previousModelName ELSE s.modelName)
             ELSE target.previousModelName,
         clientId |-> IF IsNullOrWhiteSpace(target.clientId)
                      THEN s.clientId ELSE target.clientId,
         clientSecret |-> IF IsNullOrWhiteSpace(target.clientSecret)
                          THEN s.clientSecret ELSE target.clientSecret,
         tenantId |-> IF IsNullOrWhiteSpace(target.tenantId)
                      THEN s.tenantId ELSE target.tenantId]

\* A reader that keeps what it can make out of an unparsable file.
LoadSalvaging(file) == IF file.kind = "absent" THEN Null ELSE <<file.value>>

\* TokenCacheService.Load: an absent or unreadable file is null.
Load(file) == IF file.kind = "json" THEN <<file.value>> ELSE Null

ResolveFromIndividualEnvVars(e) ==
    IF /\ IsNullOrWhiteSpace(e.workspaceUrl)
       /\ IsNullOrWhiteSpace(e.clientId)
       /\ IsNullOrWhiteSpace(e.clientSecret)
       /\ IsNullOrWhiteSpace(e.tenantId)
    THEN Null
    ELSE <<[EmptyConfig EXCEPT
              !.workspaceUrl = e.workspaceUrl,
              !.clientId = e.clientId,
              !.clientSecret = e.clientSecret,
              !.tenantId = e.tenantId,
              !.mode = IF ~IsNullOrWhiteSpace(e.clientId) /\ ~IsNullOrWhiteSpace(e.tenantId)
                       THEN "service-principal" ELSE "interactive"]>>

\* TMDL_AUTH_CONFIG: absent, unparsable, or a JSON object.
ResolveFromLegacyEnvVar(e) ==
    IF e.authJson.kind = "json" THEN <<e.authJson.value>> ELSE Null

\* Lines 117-123: the three merges, in the order the code makes them.
MergeSources(file, e) ==
    MergeMissing(
        MergeMissing(
            MergeMissing(EmptyConfig, Load(file)),
            ResolveFromIndividualEnvVars(e)),
        ResolveFromLegacyEnvVar(e))

\* A resolver that treats flags like any other source: a flag fills a field
\* only when no earlier source has filled it.
ApplyCliFlagsIfMissing(c, f) ==
    [c EXCEPT !.workspaceUrl = IF IsNullOrWhiteSpace(@) THEN f.workspace ELSE @,
              !.mode = IF ~IsNullOrWhiteSpace(@) THEN @
                       ELSE IF f.servicePrincipal THEN "service-principal"
                       ELSE IF f.interactive THEN "interactive" ELSE @,
              !.clientId = IF IsNullOrWhiteSpace(@) THEN f.clientId ELSE @,
              !.clientSecret = IF IsNullOrWhiteSpace(@) THEN f.clientSecret ELSE @,
              !.tenantId = IF IsNullOrWhiteSpace(@) THEN f.tenantId ELSE @]

\* Lines 126-131: explicit flags.
ApplyCliFlags(c, f) ==
    LET c1 == IF ~IsNullOrWhiteSpace(f.workspace) THEN [c EXCEPT !.workspaceUrl = f.workspace] ELSE c
        c2 == IF f.interactive THEN [c1 EXCEPT !.mode = "interactive"] ELSE c1
        c3 == IF f.servicePrincipal THEN [c2 EXCEPT !.mode = "service-principal"] ELSE c2
        c4 == IF ~IsNullOrWhiteSpace(f.clientId) THEN [c3 EXCEPT !.clientId = f.clientId] ELSE c3
        c5 == IF ~IsNullOrWhiteSpace(f.clientSecret) THEN [c4 EXCEPT !.clientSecret = f.clientSecret] ELSE c4
    IN  IF ~IsNullOrWhiteSpace(f.tenantId) THEN [c5 EXCEPT !.tenantId = f.tenantId] ELSE c5

\* Lines 134-141: the name override.
ApplyNameOverride(c, name) ==
    IF IsNullOrWhiteSpace(name) THEN c
    ELSE LET c1 == IF IsNullOrWhiteSpace(c.previousModelName) /\ ~IsNullOrWhiteSpace(c.modelName)
                   THEN [c EXCEPT !.previousModelName = c.modelName] ELSE c
         IN  [c1 EXCEPT !.modelName = name]

\* A mode inference that does not look at the client id and tenant id.
InferModeIgnoringIds(c, ci, choice) ==
    IF ~IsNullOrWhiteSpace(c.mode) THEN c
    ELSE IF ~ci THEN [c EXCEPT !.mode = choice]
    ELSE [c EXCEPT !.mode = "interactive"]

\* Lines 144-161: mode inference; `choice` is the operator's answer.
NeedsModePrompt(c, ci) ==
    /\ IsNullOrWhiteSpace(c.mode)
    /\ ~(~IsNullOrWhiteSpace(c.clientId) /\ ~IsNullOrWhiteSpace(c.tenantId))
    /\ ~ci

InferMode(c, ci, choice) ==
    IF ~IsNullOrWhiteSpace(c.mode) THEN c
    ELSE IF ~IsNullOrWhiteSpace(c.clientId) /\ ~IsNullOrWhiteSpace(c.tenantId)
         THEN [c EXCEPT !.mode = "service-principal"]
    ELSE IF ~ci THEN [c EXCEPT !.mode = choice]
    ELSE [c EXCEPT !.mode = "interactive"]

AzTokenLifetimeMinutes == 30

\* Lines 164-172: the Azure CLI token, interactive mode only.
CallsAzureCli(c) == c.mode = "interactive" /\ IsNullOrWhiteSpace(c.accessToken)

AzureCliFallback(c, azToken, t) ==
    IF CallsAzureCli(c) /\ ~IsNullOrWhiteSpace(azToken)
    THEN [c EXCEPT !.accessToken = azToken,
                   !.accessTokenExpiresOn = {t + AzTokenLifetimeMinutes}]
    ELSE c

\* Prompts that are issued whatever the environment.
RequiredPromptsEvenInCi(c, ci) ==
    (IF IsNullOrWhiteSpace(c.workspaceUrl) THEN {"Workspace URL"} ELSE {})
    \cup (IF c.mode = "service-principal" /\ IsNullOrWhiteSpace(c.clientId)
          THEN {"Client ID"} ELSE {})
    \cup (IF c.mode = "service-principal" /\ IsNullOrWhiteSpace(c.tenantId)
          THEN {"Tenant ID"} ELSE {})

\* Lines 175-198: prompts for what is still missing, never in CI.
RequiredPrompts(c, ci) ==
    IF ci THEN {}
    ELSE (IF IsNullOrWhiteSpace(c.workspaceUrl) THEN {"Workspace URL"} ELSE {})
         \cup (IF c.mode = "service-principal" /\ IsNullOrWhiteSpace(c.clientId)
               THEN {"Client ID"} ELSE {})
         \cup (IF c.mode = "service-principal" /\ IsNullOrWhiteSpace(c.tenantId)
               THEN {"Tenant ID"} ELSE {})

PromptMissing(c, ci) ==
    LET asked == RequiredPrompts(c, ci) IN
        [c EXCEPT !.workspaceUrl = IF "Workspace URL" \in asked THEN PromptedWorkspaceUrl ELSE @,
                  !.clientId = IF "Client ID" \in asked THEN PromptedClientId ELSE @,
                  !.tenantId = IF "Tenant ID" \in asked THEN PromptedTenantId ELSE @]

\* A resolver that accepts --interactive together with --service-principal.
ResolveAuthConfigLastFlagWins(file, e, f, choice, azToken, t) ==
    LET merged == MergeSources(file, e)
        flagged == ApplyCliFlags(merged, f)
        named == ApplyNameOverride(flagged, f.name)
        moded == InferMode(named, e.ci, choice)
        az == AzureCliFallback(moded, azToken, t)
    IN  [threw |-> FALSE,
         config |-> PromptMissing(az, e.ci),
         prompts |-> (IF NeedsModePrompt(named, e.ci) THEN {"Select authentication mode:"} ELSE {})
                     \cup RequiredPrompts(az, e.ci),
         azCli |-> CallsAzureCli(moded)]

\* ResolveAuthConfig, lines 103-199. choice: the answer to the mode prompt;
\* azToken: what `az account get-access-token` prints ("" when it fails).
ResolveAuthConfig(file, e, f, choice, azToken, t) ==
    IF f.interactive /\ f.servicePrincipal
    THEN [threw |-> TRUE, config |-> EmptyConfig, prompts |-> {}, azCli |-> FALSE]
    ELSE LET merged == MergeSources(file, e)
             flagged == ApplyCliFlags(merged, f)
             named == ApplyNameOverride(flagged, f.name)
             moded == InferMode(named, e.ci, choice)
             az == AzureCliFallback(moded, azToken, t)
         IN  [threw |-> FALSE,
              config |-> PromptMissing(az, e.ci),
              prompts |-> (IF NeedsModePrompt(named, e.ci) THEN {"Select authentication mode:"} ELSE {})
                          \cup RequiredPrompts(az, e.ci),
              azCli |-> CallsAzureCli(moded)]

\* A validation that does not ask for a tenant id.
ValidateAuthConfigWithoutTenant(c) ==
    IF IsNullOrWhiteSpace(c.workspaceUrl)
    THEN "Workspace URL is required. Use --workspace or TMDL_WORKSPACE_URL."
    ELSE IF ToLower(c.mode) = "interactive" THEN ""
    ELSE IF ToLower(c.mode) \in {"service-principal", "env"}
         THEN (IF IsNullOrWhiteSpace(c.clientId)
               THEN "Client ID is required for service principal authentication."
               ELSE "")
    ELSE "Invalid authentication mode. Use interactive or service-principal."

\* ValidateAuthConfig, lines 277-311: "" when valid, else the error message.
ValidateAuthConfig(c) ==
    IF IsNullOrWhiteSpace(c.workspaceUrl)
    THEN "Workspace URL is required. Use --workspace or TMDL_WORKSPACE_URL."
    ELSE IF ToLower(c.mode) = "interactive" THEN ""
    ELSE IF ToLower(c.mode) \in {"service-principal", "env"}
         THEN (IF IsNullOrWhiteSpace(c.clientId)
               THEN "Client ID is required for service principal authentication."
               ELSE IF IsNullOrWhiteSpace(c.tenantId)
               THEN "Tenant ID is required for service principal authentication."
               ELSE "")
    ELSE "Invalid authentication mode. Use interactive or service-principal."

-----------------------------------------------------------------------------
\* Credential store (TokenCacheService).

\* A store that writes the configuration as it is.
RawConfig(c) == c

\* Save, lines 73-85: the projection that is written.
SafeConfig(c) == [c EXCEPT !.clientSecret = ""]

Save(c) == [kind |-> "json", value |-> SafeConfig(c)]

-----------------------------------------------------------------------------
\* Token acquirer (TokenService).

SpToken == "tok-sp"
InteractiveToken == "tok-user"
AzToken == "tok-az"

\* A service-principal sign-in that hands back whatever the endpoint sent,
\* an empty token included.
AcquireTokenByServicePrincipalUnchecked(clientId, clientSecret, tenantId, ok) ==
    [flows |-> <<"service-principal">>, token |-> IF ok THEN SpToken ELSE "", error |-> ""]

\* A service-principal sign-in whose error message quotes the secret it sent.
AcquireTokenByServicePrincipalEchoing(clientId, clientSecret, tenantId, ok) ==
    IF ok THEN [flows |-> <<"service-principal">>, token |-> SpToken, error |-> ""]
    ELSE [flows |-> <<"service-principal">>, token |-> "",
          error |-> "Failed to acquire token for service principal: " \o clientSecret]

\* AcquireTokenByServicePrincipalAsync, lines 32-65. ok: the answer of the
\* token endpoint.
AcquireTokenByServicePrincipal(clientId, clientSecret, tenantId, ok) ==
    IF IsNullOrEmpty(clientId) \/ IsNullOrEmpty(clientSecret) \/ IsNullOrEmpty(tenantId)
    THEN [flows |-> <<>>, token |-> "", error |-> "ArgumentException"]
    ELSE IF ok THEN [flows |-> <<"service-principal">>, token |-> SpToken, error |-> ""]
    ELSE [flows |-> <<"service-principal">>, token |-> "",
          error |-> "Failed to acquire token for service principal"]

\* What the identity platform and the operator do during an interactive sign-in.
InteractiveOutcomes ==
    IF world = "pristine"
    THEN [account : BOOLEAN, silent : {"ok", "ui-required"},
          browser : {"ok", "unavailable"}, device : {"ok"}]
    ELSE [account : BOOLEAN, silent : {"ok", "ui-required", "error"},
          browser : {"ok", "unavailable", "error"}, device : {"ok", "error"}]

CiMessage == "CI environment detected. Browser authentication is not available in CI/CD pipelines."

\* A device-code sign-in that starts over once when it fails.
AcquireTokenByDeviceCodeRetrying(flows, o) ==
    IF o.device = "ok"
    THEN [flows |-> Append(flows, "device-code"), token |-> InteractiveToken, error |-> ""]
    ELSE [flows |-> flows \o <<"device-code", "device-code">>, token |-> "",
          error |-> "Failed to acquire token"]

\* AcquireTokenByDeviceCodeAsync, lines 150-203.
AcquireTokenByDeviceCode(flows, o) ==
    IF o.device = "ok"
    THEN [flows |-> Append(flows, "device-code"), token |-> InteractiveToken, error |-> ""]
    ELSE [flows |-> Append(flows, "device-code"), token |-> "", error |-> "Failed to acquire token"]

\* An interactive sign-in that does not look at the CI environment.
AcquireTokenInteractiveWithoutCiGuard(useBrowser, ci, o) ==
    LET afterSilent == IF o.account THEN <<"silent">> ELSE <<>> IN
    IF o.account /\ o.silent = "ok"
    THEN [flows |-> afterSilent, token |-> InteractiveToken, error |-> ""]
    ELSE IF o.account /\ o.silent = "error"
    THEN [flows |-> afterSilent, token |-> "", error |-> "Failed to acquire token"]
    ELSE IF useBrowser /\ o.browser = "ok"
    THEN [flows |-> Append(afterSilent, "browser"), token |-> InteractiveToken, error |-> ""]
    ELSE IF useBrowser /\ o.browser = "error"
    THEN [flows |-> Append(afterSilent, "browser"), token |-> "",
          error |-> "Failed to acquire token"]
    ELSE AcquireTokenByDeviceCode(
            IF useBrowser THEN Append(afterSilent, "browser") ELSE afterSilent, o)

\* AcquireTokenInteractiveAsync, lines 74-141.
AcquireTokenInteractive(useBrowser, ci, o) ==
    LET afterSilent == IF o.account THEN <<"silent">> ELSE <<>> IN
    IF o.account /\ o.silent = "ok"
    THEN [flows |-> afterSilent, token |-> InteractiveToken, error |-> ""]
    ELSE IF o.account /\ o.silent = "error"
    THEN [flows |-> afterSilent, token |-> "", error |-> "Failed to acquire token"]
    ELSE IF ci
    THEN [flows |-> afterSilent, token |-> "", error |-> CiMessage]
    ELSE IF useBrowser
    THEN (IF o.browser = "ok"
          THEN [flows |-> Append(afterSilent, "browser"), token |-> InteractiveToken, error |-> ""]
          ELSE IF o.browser = "error"
          THEN [flows |-> Append(afterSilent, "browser"), token |-> "",
                error |-> "Failed to acquire token"]
          ELSE AcquireTokenByDeviceCode(Append(afterSilent, "browser"), o))
    ELSE AcquireTokenByDeviceCode(afterSilent, o)

-----------------------------------------------------------------------------
\* Results. A DeployResult is a success flag, a message and, for a remote
\* failure, the status code and body the message quotes.

NoDetail == <<>>

Error(msg) == [success |-> FALSE, message |-> msg, detail |-> NoDetail]

ErrorWith(msg, d) == [success |-> FALSE, message |-> msg, detail |-> d]

Success(msg) == [success |-> TRUE, message |-> msg, detail |-> NoDetail]

NoResult == [success |-> FALSE, message |-> "", detail |-> NoDetail]

\* An Execute without its catch blocks: the exception leaves the command
\* and nothing is written.
ReportExceptionUncaught(error) == NoResult

\* Execute, lines 93-100: how an exception message is reported.
ReportException(error) ==
    IF error = CiMessage
    THEN Error(error)
    ELSE Error("Deployment command failed: " \o error)

-----------------------------------------------------------------------------
\* Identity mapper and remote registry (FabricApiService, TokenCacheService).

\* A GUID is the sequence of its bytes; NoId is a null or empty id string.
NoId == <<>>

LogicalId == <<0, 1>>

ItemIds == {<<0, 1>>, <<1, 0>>, <<1, 1>>}

WorkspaceUrl == "https://api.fabric.microsoft.com/v1/workspaces/W1"

\* ExtractWorkspaceId, lines 309-330: the first path segment that is a GUID.
ExtractWorkspaceId(url) ==
    IF IsNullOrEmpty(url) THEN ""
    ELSE IF url = WorkspaceUrl THEN "W1"
    ELSE ""

\* TryMapLogicalIdToItemId, lines 293-304: the bytes in reverse order.
TryMapLogicalIdToItemId(logicalId) ==
    IF logicalId = NoId THEN NoId
    ELSE [i \in 1..Len(logicalId) |-> logicalId[Len(logicalId) + 1 - i]]

BuildLogicalMapKey(workspaceId, logicalId) == <<workspaceId, logicalId>>

\* A Dictionary<string, string>: its comparer and its entries.
NewDictionary(ignoreCase) == [ignoreCase |-> ignoreCase, entries |-> <<>>]

KeyEquals(ignoreCase, a, b) ==
    IF ignoreCase THEN ToLower(a[1]) = ToLower(b[1]) /\ a[2] = b[2] ELSE a = b

\* Dictionary.TryGetValue: NoId when no key of the dictionary equals `key`.
TryGetValue(dict, key) ==
    IF \E k \in DOMAIN dict.entries : KeyEquals(dict.ignoreCase, k, key)
    THEN dict.entries[CHOOSE k \in DOMAIN dict.entries : KeyEquals(dict.ignoreCase, k, key)]
    ELSE NoId

\* The indexer's setter: the value of an equal key is replaced, the key kept.
SetItem(dict, key, value) ==
    IF \E k \in DOMAIN dict.entries : KeyEquals(dict.ignoreCase, k, key)
    THEN [dict EXCEPT !.entries =
            [@ EXCEPT ![CHOOSE k \in DOMAIN dict.entries :
                            KeyEquals(dict.ignoreCase, k, key)] = value]]
    ELSE [dict EXCEPT !.entries = (key :> value) @@ @]

NoMapFile == [kind |-> "absent", value |-> <<>>]

CorruptMapFile == [kind |-> "corrupt", value |-> <<>>]

\* LoadLogicalMap, lines 150-167: null when the file is absent, an empty
\* dictionary when it cannot be parsed; a parsed dictionary has the default
\* comparer of JsonSerializer.Deserialize.
LoadLogicalMap(file) ==
    IF file.kind = "absent" THEN Null
    ELSE IF file.kind = "json"
    THEN <<[ignoreCase |-> FALSE, entries |-> file.value]>>
    ELSE <<NewDictionary(TRUE)>>

\* SaveLogicalMap, lines 169-195: the entries are written, the comparer is not.
SaveLogicalMap(dict) == [kind |-> "json", value |-> dict.entries]

\* GetMappedItemId, lines 118-128.
GetMappedItemId(map, workspaceId, logicalId) ==
    IF LoadLogicalMap(map) = Null THEN NoId
    ELSE TryGetValue(LoadLogicalMap(map)[1], BuildLogicalMapKey(workspaceId, logicalId))

\* SetMappedItemId, lines 133-143.
SetMappedItemId(map, workspaceId, logicalId, itemId) ==
    IF IsNullOrWhiteSpace(workspaceId) \/ logicalId = NoId \/ itemId = NoId
    THEN map
    ELSE SaveLogicalMap(
            SetItem(IF LoadLogicalMap(map) = Null THEN NewDictionary(TRUE)
                    ELSE LoadLogicalMap(map)[1],
                    BuildLogicalMapKey(workspaceId, logicalId), itemId))

\* Enumerable.FirstOrDefault on a listing: the index of the first item with
\* the id (compared ignoring case), 0 when there is none.
IndexById(items, id) ==
    IF \E i \in 1..Len(items) : items[i].id = id
    THEN CHOOSE i \in 1..Len(items) :
            /\ items[i].id = id
            /\ \A j \in 1..(i - 1) : items[j].id # id
    ELSE 0

\* The index of the first item with the display name, ignoring case.
IndexByName(items, name) ==
    IF \E i \in 1..Len(items) : EqualsIgnoreCase(items[i].displayName, name)
    THEN CHOOSE i \in 1..Len(items) :
            /\ EqualsIgnoreCase(items[i].displayName, name)
            /\ \A j \in 1..(i - 1) : ~EqualsIgnoreCase(items[j].displayName, name)
    ELSE 0

NoMatch == [id |-> NoId, displayName |-> "", seed |-> FALSE]

\* A mapper that trusts the cached mapping without looking at the listing.
FindByLogicalIdTrusting(items, map, workspaceId, logicalId) ==
    LET cachedItemId == GetMappedItemId(map, workspaceId, logicalId)
        mappedItemId == TryMapLogicalIdToItemId(logicalId)
    IN  IF logicalId = NoId THEN NoMatch
        ELSE IF cachedItemId # NoId
        THEN [id |-> cachedItemId,
              displayName |-> IF IndexById(items, cachedItemId) # 0
                              THEN items[IndexById(items, cachedItemId)].displayName
                              ELSE "",
              seed |-> FALSE]
        ELSE IF mappedItemId # NoId /\ IndexById(items, mappedItemId) # 0
        THEN [id |-> items[IndexById(items, mappedItemId)].id,
              displayName |-> items[IndexById(items, mappedItemId)].displayName,
              seed |-> TRUE]
        ELSE NoMatch

\* DeployAsync, lines 61-90: the cached mapping, confirmed in the listing,
\* then the byte-reversed candidate, confirmed in the listing.
FindByLogicalId(items, map, workspaceId, logicalId) ==
    LET cachedItemId == GetMappedItemId(map, workspaceId, logicalId)
        mappedItemId == TryMapLogicalIdToItemId(logicalId)
    IN  IF logicalId = NoId THEN NoMatch
        ELSE IF cachedItemId # NoId /\ IndexById(items, cachedItemId) # 0
        THEN [id |-> cachedItemId,
              displayName |-> items[IndexById(items, cachedItemId)].displayName,
              seed |-> FALSE]
        ELSE IF mappedItemId # NoId /\ IndexById(items, mappedItemId) # 0
        THEN [id |-> items[IndexById(items, mappedItemId)].id,
              displayName |-> items[IndexById(items, mappedItemId)].displayName,
              seed |-> TRUE]
        ELSE NoMatch

\* A lookup by desired name that never finds an item.
FindByDesiredNameNever(items, itemName) == NoMatch

\* DeployAsync, lines 109-122: the item whose name is the desired name.
FindByDesiredName(items, itemName) ==
    IF IndexByName(items, itemName) = 0 THEN NoMatch
    ELSE [id |-> items[IndexByName(items, itemName)].id,
          displayName |-> items[IndexByName(items, itemName)].displayName,
          seed |-> TRUE]

\* A fallback search that prefers the last usable name to the first.
FallbackIndexLastFirst(items, fallbackNames, itemName) ==
    LET Usable(k) == /\ ~IsNullOrWhiteSpace(fallbackNames[k])
                     /\ ~EqualsIgnoreCase(fallbackNames[k], itemName)
                     /\ IndexByName(items, fallbackNames[k]) # 0
    IN  IF \E k \in 1..Len(fallbackNames) : Usable(k)
        THEN CHOOSE k \in 1..Len(fallbackNames) :
                Usable(k) /\ \A j \in (k + 1)..Len(fallbackNames) : ~Usable(j)
        ELSE 0

\* DeployAsync, lines 127-137: the first fallback name that is not blank, is
\* not the desired name and names an item of the listing; 0 when none.
FallbackIndex(items, fallbackNames, itemName) ==
    LET Usable(k) == /\ ~IsNullOrWhiteSpace(fallbackNames[k])
                     /\ ~EqualsIgnoreCase(fallbackNames[k], itemName)
                     /\ IndexByName(items, fallbackNames[k]) # 0
    IN  IF \E k \in 1..Len(fallbackNames) : Usable(k)
        THEN CHOOSE k \in 1..Len(fallbackNames) :
                Usable(k) /\ \A j \in 1..(k - 1) : ~Usable(j)
        ELSE 0

\* A resolution that prefers the declared name to the platform name.
ResolveItemNameDeclaredFirst(explicitName, databaseName, platformName, prompted) ==
    IF ~IsNullOrWhiteSpace(explicitName) THEN Trim(explicitName)
    ELSE IF ~IsNullOrWhiteSpace(databaseName) THEN Trim(databaseName)
    ELSE IF ~IsNullOrWhiteSpace(platformName) THEN platformName
    ELSE prompted

\* ResolveItemName, lines 187-212; prompted: the operator's answer.
NeedsNamePrompt(explicitName, databaseName, platformName) ==
    /\ IsNullOrWhiteSpace(explicitName)
    /\ IsNullOrWhiteSpace(platformName)
    /\ IsNullOrWhiteSpace(databaseName)

ResolveItemName(explicitName, databaseName, platformName, prompted) ==
    IF ~IsNullOrWhiteSpace(explicitName) THEN Trim(explicitName)
    ELSE IF ~IsNullOrWhiteSpace(platformName) THEN platformName
    ELSE IF ~IsNullOrWhiteSpace(databaseName) THEN Trim(databaseName)
    ELSE prompted

\* The remote service. It refuses a display name another item already has.
NameTaken(items, name, exceptId) ==
    \E i \in 1..Len(items) :
        items[i].id # exceptId /\ EqualsIgnoreCase(items[i].displayName, name)

RenameAccepted(items, id, newName) ==
    IndexById(items, id) # 0 /\ ~NameTaken(items, newName, id)

Renamed(items, id, newName) ==
    [i \in 1..Len(items) |->
        IF items[i].id = id THEN [items[i] EXCEPT !.displayName = newName] ELSE items[i]]

HttpFailure == <<"InternalServerError", "response-body">>

\* ListItemsByTypeAsync, lines 335-398. A page answered non-2xx ends the
\* loop; what the earlier pages returned is the result.
ListResponses(items) ==
    {[kind |-> "ok", items |-> items]}
    \cup (IF world = "pristine" THEN {}
          ELSE {[kind |-> "non2xx", items |-> SubSeq(items, 1, k)] :
                    k \in 0..(IF Len(items) = 0 THEN 0 ELSE Len(items) - 1)}
               \cup {[kind |-> "exception", items |-> <<>>]})

\* Whether a request that the service can serve is served.
Answers == IF world = "pristine" THEN {TRUE} ELSE BOOLEAN

\* A remote call in the log: the operation, the item it names, and how the
\* service answered: "2xx", "non2xx", or "exception" when no answer came.
Call(op, id, answer) == [op |-> op, id |-> id, answer |-> answer]

StatusClass(isSuccessStatusCode) == IF isSuccessStatusCode THEN "2xx" ELSE "non2xx"

\* A rename that reports success whatever the service answers.
RenameItemIgnoringStatus(answer) == [success |-> TRUE, error |-> NoDetail]

\* RenameItemAsync, lines 530-564: success exactly on a 2xx answer.
RenameItem(answer) ==
    IF answer = "2xx" THEN [success |-> TRUE, error |-> NoDetail]
    ELSE [success |-> FALSE, error |-> HttpFailure]

-----------------------------------------------------------------------------
\* Operation poller (FabricApiService.WaitForOperationCompletionAsync).

MaxPollAttempts == 60

\* The service's behaviour for one operation: `running` status responses
\* Running, then the answer `then`, then `later` for every later request.
Scripts ==
    IF world = "pristine"
    THEN [opId : {"header", "location"}, running : {0, 2}, then : {"Succeeded"},
          later : {"Running"}]
    ELSE [opId : {"header", "location", "none"},
          running : {0, 2, MaxPollAttempts},
          then : {"Succeeded", "Failed", "FailedNoMessage", "HttpError"},
          later : {"Running"}]

\* The answer to the n-th status request (n = 1, 2, ...).
Response(script, n) ==
    IF n <= script.running THEN "Running"
    ELSE IF n = script.running + 1 THEN script.then
    ELSE script.later

ServerMessage == "server-error-message"

\* Lines 701-727: what one status answer makes the poller return, after
\* `polls` requests.
StatusOutcome(status, polls) ==
    IF status = "HttpError"
    THEN [success |-> FALSE, polls |-> polls, http |-> FALSE,
          error |-> "Failed to query operation state: "]
    ELSE IF status = "Succeeded"
    THEN [success |-> TRUE, polls |-> polls, http |-> TRUE, error |-> ""]
    ELSE IF status = "Failed"
    THEN [success |-> FALSE, polls |-> polls, http |-> TRUE, error |-> ServerMessage]
    ELSE [success |-> FALSE, polls |-> polls, http |-> TRUE, error |-> "Operation failed."]

\* Lines 729-739: any other answer waits and asks again.
AsksAgain(status) == status \notin {"HttpError", "Succeeded", "Failed", "FailedNoMessage"}

TimedOut(polls) ==
    [success |-> FALSE, polls |-> polls, http |-> TRUE,
     error |-> "Timed out waiting for operation completion."]

\* A poller that keeps asking after a Failed status.
RECURSIVE PollFromUntilSucceeded(_, _)
PollFromUntilSucceeded(script, attempt) ==
    IF attempt >= MaxPollAttempts THEN TimedOut(attempt)
    ELSE IF Response(script, attempt + 1) \notin {"HttpError", "Succeeded"}
    THEN PollFromUntilSucceeded(script, attempt + 1)
    ELSE StatusOutcome(Response(script, attempt + 1), attempt + 1)

\* A poller that allows itself one more attempt.
RECURSIVE PollFromOneMore(_, _)
PollFromOneMore(script, attempt) ==
    IF attempt >= MaxPollAttempts + 1 THEN TimedOut(attempt)
    ELSE IF AsksAgain(Response(script, attempt + 1))
    THEN PollFromOneMore(script, attempt + 1)
    ELSE StatusOutcome(Response(script, attempt + 1), attempt + 1)

\* Lines 693-742: the loop, from iteration `attempt`.
RECURSIVE PollFrom(_, _)
PollFrom(script, attempt) ==
    IF attempt >= MaxPollAttempts THEN TimedOut(attempt)
    ELSE IF AsksAgain(Response(script, attempt + 1))
    THEN PollFrom(script, attempt + 1)
    ELSE StatusOutcome(Response(script, attempt + 1), attempt + 1)

\* A wait that takes the accepted response for the completed operation.
WaitForOperationCompletionAssumingSuccess(script) ==
    IF script.opId = "none"
    THEN [success |-> FALSE, polls |-> 0, http |-> TRUE,
          error |-> "Operation accepted but operation id was not returned by API."]
    ELSE [success |-> TRUE, polls |-> 0, http |-> TRUE, error |-> ""]

\* Lines 678-743.
WaitForOperationCompletion(script) ==
    IF script.opId = "none"
    THEN [success |-> FALSE, polls |-> 0, http |-> TRUE,
          error |-> "Operation accepted but operation id was not returned by API."]
    ELSE PollFrom(script, 0)

\* The answers to an update-definition request.
UpdateResponses ==
    {[kind |-> k, script |-> [opId |-> "header", running |-> 0, then |-> "Succeeded",
                                    later |-> "Running"]] :
        k \in IF world = "pristine" THEN {"ok"} ELSE {"ok", "non2xx", "exception"}}
    \cup {[kind |-> "accepted", script |-> s] : s \in Scripts}

\* A success message that does not tell a rename from a plain update.
SuccessMessageWithoutRename(isNew, renamed) ==
    IF isNew THEN "Successfully created semantic model"
    ELSE "Successfully updated semantic model"

\* UpdateItemDefinitionAsync, lines 618-622.
SuccessMessage(isNew, renamed) ==
    IF isNew THEN "Successfully created semantic model"
    ELSE IF renamed THEN "Successfully renamed and updated semantic model"
    ELSE "Successfully updated semantic model"

\* UpdateItemDefinitionAsync, lines 569-630: the calls made and the result.
UpdateItemDefinition(itemId, isNew, renamed, resp) ==
    LET lro == WaitForOperationCompletion(resp.script)
        done == Success(SuccessMessage(isNew, renamed))
    IN  CASE resp.kind = "exception" ->
                [calls |-> <<Call("update", itemId, "exception")>>,
                 result |-> Error("Failed to update definition: exception")]
          [] resp.kind = "non2xx" ->
                [calls |-> <<Call("update", itemId, "non2xx")>>,
                 result |-> ErrorWith("Failed to update definition: ", HttpFailure)]
          [] resp.kind = "ok" ->
                [calls |-> <<Call("update", itemId, "2xx")>>, result |-> done]
          [] OTHER ->
                [calls |-> <<Call("update", itemId, "2xx")>>
                           \o (IF lro.polls > 0
                               THEN <<Call("status", itemId, StatusClass(lro.http))>> ELSE <<>>),
                 result |-> IF lro.success THEN done
                            ELSE IF lro.http
                            THEN Error("Failed to update definition: " \o lro.error)
                            ELSE ErrorWith("Failed to update definition: " \o lro.error,
                                           HttpFailure)]

-----------------------------------------------------------------------------
\* The state of an invocation before it starts.

NoCli == [workspace |-> "", name |-> "", interactive |-> FALSE,
          servicePrincipal |-> FALSE, clientId |-> "", clientSecret |-> "",
          tenantId |-> "", noBrowser |-> FALSE]

NoJson == [kind |-> "absent", value |-> EmptyConfig]

\* Text that is not the JSON of an AuthConfig; `value` is what a lenient
\* reader could make out of it.
CorruptJson == [kind |-> "corrupt",
                value |-> [EmptyConfig EXCEPT !.mode = "service-principal",
                                              !.workspaceUrl = "ws-garbled"]]

NoEnv == [workspaceUrl |-> "", clientId |-> "", clientSecret |-> "",
          tenantId |-> "", authJson |-> NoJson, ci |-> FALSE]

\* accepted: the requests answered 202 Accepted; succeeded: those whose
\* operation was seen in status Succeeded.
NoLoc == [workspaceId |-> "", itemName |-> "", listing |-> <<>>, cachedItemId |-> NoId,
          existingItemId |-> NoId, existingDisplayName |-> "", renamed |-> FALSE,
          accepted |-> <<>>, succeeded |-> <<>>]

NoIo == [prompts |-> {}, tokenFlows |-> <<>>, saves |-> 0]

TokenLifetimeMinutes == 55

\* No invocations racing.
NoRace == [procs |-> <<>>, events |-> <<>>]

\* No deploy is being repeated.
NoLast == [ran |-> FALSE, itemId |-> NoId, registry |-> <<>>, calls |-> <<>>]

\* No LineNumberFinder query.
NoFind == [exists |-> FALSE, content |-> <<>>, itemName |-> <<>>, itemType |-> "",
           answer |-> {}]

NoPoll == <<>>

\* File.WriteAllText in TokenCacheService.Save (line 100) and SaveLogicalMap
\* (line 185) is outside every try block: whether a cache file was written,
\* or the write threw.
WriteOutcomes == IF world = "unwritable" THEN {TRUE, FALSE} ELSE {TRUE}

\* SetMappedItemId writes only past its guard (lines 135-138).
MapWriteOutcomes(workspaceId, logicalId, itemId) ==
    IF IsNullOrWhiteSpace(workspaceId) \/ logicalId = NoId \/ itemId = NoId
    THEN {TRUE} ELSE WriteOutcomes

\* DeployCommand.Execute, lines 97-100: an exception of Save.
SaveFailed == Error("Deployment command failed: IOException")

\* FabricApiService.DeployAsync, lines 178-181: an exception of
\* SetMappedItemId.
MapFailed == Error("Fabric API deployment failed: IOException")

\* DeployAsync returns r; Execute saves the configuration (line 90) and
\* writes r (line 91), or the exception of Save (lines 97-100).
Return(r) ==
    \E written \in WriteOutcomes : result' = IF written THEN r ELSE SaveFailed

-----------------------------------------------------------------------------
\* DeployCommand.Execute.

\* Lines 35-54: resolve and validate.
ExecuteResolve ==
    /\ pc = "resolve"
    /\ cmd = "deploy"
    /\ \E choice \in {"interactive", "service-principal"}, azToken \in {"", AzToken} :
        LET r == ResolveAuthConfig(cacheFile, env, cli, choice, azToken, now)
            invalid == ValidateAuthConfig(r.config)
        IN  /\ io' = [io EXCEPT !.prompts = @ \cup r.prompts,
                                !.tokenFlows = IF r.azCli THEN Append(@, "azure-cli") ELSE @]
            /\ config' = r.config
            /\ IF r.threw
               THEN /\ result' = Error("Use either --interactive or --service-principal, not both.")
                    /\ pc' = "done"
               ELSE IF invalid # ""
               THEN /\ result' = Error(invalid)
                    /\ pc' = "done"
               ELSE /\ pc' = "token"
                    /\ UNCHANGED result
    /\ UNCHANGED <<cacheFile, logicalMap, registry, now, poll, model, cmd, cli, env, loc, calls,
                   runs, world, last, find, race>>

\* Lines 56-87: acquire the token, clear the secret, save.
ExecuteAcquireToken ==
    /\ pc = "token"
    /\ cmd = "deploy"
    /\ IF ToLower(config.mode) = "interactive"
       THEN IF HasUsableAccessToken(config, now)
            THEN \E written \in WriteOutcomes :
                 /\ cacheFile' = IF written THEN Save(config) ELSE cacheFile
                 /\ io' = IF written THEN [io EXCEPT !.saves = @ + 1] ELSE io
                 /\ pc' = IF written THEN "deploy" ELSE "done"
                 /\ result' = IF written THEN result ELSE SaveFailed
                 /\ UNCHANGED config
            ELSE \E o \in InteractiveOutcomes :
                    LET t == AcquireTokenInteractive(~cli.noBrowser, env.ci, o) IN
                    IF t.error = ""
                    THEN \E written \in WriteOutcomes :
                         /\ config' = [config EXCEPT
                                !.accessToken = t.token,
                                !.accessTokenExpiresOn = {now + TokenLifetimeMinutes}]
                         /\ cacheFile' = IF written THEN Save(config') ELSE cacheFile
                         /\ io' = [io EXCEPT !.tokenFlows = @ \o t.flows,
                                             !.saves = IF written THEN @ + 1 ELSE @]
                         /\ pc' = IF written THEN "deploy" ELSE "done"
                         /\ result' = IF written THEN result ELSE SaveFailed
                    ELSE /\ result' = ReportException(t.error)
                         /\ io' = [io EXCEPT !.tokenFlows = @ \o t.flows]
                         /\ pc' = "done"
                         /\ UNCHANGED <<config, cacheFile>>
       ELSE IF IsNullOrWhiteSpace(config.clientSecret) /\ env.ci
            THEN /\ result' = Error("Missing TMDL_CLIENT_SECRET for service principal authentication in CI environment.")
                 /\ pc' = "done"
                 /\ UNCHANGED <<config, cacheFile, io>>
            ELSE \E ok \in Answers :
                    LET asked == IsNullOrWhiteSpace(config.clientSecret)
                        secret == IF asked THEN PromptedSecret ELSE config.clientSecret
                        t == AcquireTokenByServicePrincipal(config.clientId, secret, config.tenantId, ok)
                        prompted == IF asked THEN {"Client Secret"} ELSE {}
                    IN  IF t.error = ""
                        THEN \E written \in WriteOutcomes :
                             /\ config' = [config EXCEPT !.accessToken = t.token,
                                                         !.clientSecret = ""]
                             /\ cacheFile' = IF written THEN Save(config') ELSE cacheFile
                             /\ io' = [io EXCEPT !.prompts = @ \cup prompted,
                                                 !.tokenFlows = @ \o t.flows,
                                                 !.saves = IF written THEN @ + 1 ELSE @]
                             /\ pc' = IF written THEN "deploy" ELSE "done"
                             /\ result' = IF written THEN result ELSE SaveFailed
                        ELSE /\ config' = [config EXCEPT !.clientSecret = secret]
                             /\ result' = ReportException(t.error)
                             /\ io' = [io EXCEPT !.prompts = @ \cup prompted,
                                                 !.tokenFlows = @ \o t.flows]
                             /\ pc' = "done"
                             /\ UNCHANGED cacheFile
    /\ UNCHANGED <<logicalMap, registry, now, poll, model, cmd, cli, env, loc, calls, runs, world, last, find, race>>

\* Lines 89-91: when DeployAsync has returned, Execute saves the
\* configuration again and writes the result (Return). Every action that
\* ends DeployAsync ends with this: the cache file after that save.
ExecuteFinish(ended) ==
    /\ cacheFile' = IF ended /\ result' # SaveFailed THEN Save(config') ELSE cacheFile
    /\ io' = IF ended /\ result' # SaveFailed THEN [io EXCEPT !.saves = @ + 1] ELSE io

-----------------------------------------------------------------------------
\* LoginCommand.Execute, lines 16-80.

Login ==
    /\ pc = "resolve"
    /\ cmd = "login"
    /\ \E redirected \in BOOLEAN, choice \in {"interactive", "service-principal"},
          o \in InteractiveOutcomes, ok \in Answers :
        LET nonInteractive == env.ci \/ redirected
            asksMode == ~cli.interactive /\ ~cli.servicePrincipal
            mode == IF cli.interactive THEN "interactive"
                    ELSE IF cli.servicePrincipal THEN "service-principal"
                    ELSE choice
            user == AcquireTokenInteractive(~cli.noBrowser, env.ci, o)
            incomplete == \/ IsNullOrWhiteSpace(cli.clientId)
                          \/ IsNullOrWhiteSpace(cli.tenantId)
                          \/ IsNullOrWhiteSpace(cli.clientSecret)
            clientId == IF IsNullOrWhiteSpace(cli.clientId) THEN PromptedClientId ELSE cli.clientId
            tenantId == IF IsNullOrWhiteSpace(cli.tenantId) THEN PromptedTenantId ELSE cli.tenantId
            secret == IF IsNullOrWhiteSpace(cli.clientSecret) THEN PromptedSecret ELSE cli.clientSecret
            sp == AcquireTokenByServicePrincipal(clientId, secret, tenantId, ok)
            asked == (IF IsNullOrWhiteSpace(cli.clientId) THEN {"Client ID"} ELSE {})
                     \cup (IF IsNullOrWhiteSpace(cli.tenantId) THEN {"Tenant ID"} ELSE {})
                     \cup (IF IsNullOrWhiteSpace(cli.clientSecret) THEN {"Client Secret"} ELSE {})
            modePrompt == IF asksMode THEN {"Select authentication mode:"} ELSE {}
        IN  IF cli.interactive /\ cli.servicePrincipal
            THEN /\ result' = Error("ERROR: Use either --interactive or --service-principal, not both.")
                 /\ UNCHANGED <<config, cacheFile, io>>
            ELSE IF asksMode /\ nonInteractive
            THEN /\ result' = Error("Unhandled exception: Non-interactive environment detected.")
                 /\ UNCHANGED <<config, cacheFile, io>>
            ELSE IF mode = "interactive"
            THEN IF user.error = ""
                 THEN /\ config' = [EmptyConfig EXCEPT
                            !.mode = mode,
                            !.accessToken = user.token,
                            !.accessTokenExpiresOn = {now + TokenLifetimeMinutes}]
                      /\ cacheFile' = Save(config')
                      /\ io' = [io EXCEPT !.prompts = @ \cup modePrompt,
                                          !.tokenFlows = @ \o user.flows, !.saves = @ + 1]
                      /\ result' = Success("Login successful.")
                 ELSE /\ config' = [EmptyConfig EXCEPT !.mode = mode]
                      /\ io' = [io EXCEPT !.prompts = @ \cup modePrompt,
                                          !.tokenFlows = @ \o user.flows]
                      /\ result' = Error("ERROR: Login failed: " \o user.error)
                      /\ UNCHANGED cacheFile
            ELSE IF nonInteractive /\ incomplete
            THEN /\ config' = [EmptyConfig EXCEPT !.mode = mode]
                 /\ io' = [io EXCEPT !.prompts = @ \cup modePrompt]
                 /\ result' = Error("ERROR: Login failed: Non-interactive environment detected.")
                 /\ UNCHANGED cacheFile
            ELSE IF sp.error = ""
            THEN /\ config' = [EmptyConfig EXCEPT !.mode = mode, !.clientId = clientId,
                                                  !.tenantId = tenantId]
                 /\ cacheFile' = Save(config')
                 /\ io' = [io EXCEPT !.prompts = @ \cup modePrompt \cup asked,
                                     !.tokenFlows = @ \o sp.flows, !.saves = @ + 1]
                 /\ result' = Success("Login successful.")
            ELSE /\ config' = [EmptyConfig EXCEPT !.mode = mode, !.clientId = clientId,
                                                  !.tenantId = tenantId]
                 /\ io' = [io EXCEPT !.prompts = @ \cup modePrompt \cup asked,
                                     !.tokenFlows = @ \o sp.flows]
                 /\ result' = Error("ERROR: Login failed: " \o sp.error)
                 /\ UNCHANGED cacheFile
    /\ pc' = "done"
    /\ UNCHANGED <<logicalMap, registry, now, poll, model, cmd, cli, env, loc, calls, runs, world, last, find, race>>

-----------------------------------------------------------------------------
\* FabricApiService.DeployAsync.

PromptedName == "N"

\* Lines 40-54: workspace id, desired name, listing.
DeployList ==
    /\ pc = "deploy"
    /\ LET workspaceId == ExtractWorkspaceId(config.workspaceUrl)
           asks == NeedsNamePrompt(config.modelName, model.databaseName, model.platformName)
           itemName == ResolveItemName(config.modelName, model.databaseName,
                                       model.platformName, PromptedName)
       IN  IF IsNullOrEmpty(workspaceId)
           THEN /\ Return(Error("Could not extract workspace ID from URL."))
                /\ pc' = "done"
                /\ UNCHANGED <<config, loc, calls>>
           ELSE IF asks /\ env.ci
           THEN /\ Return(Error("Fabric API deployment failed: Could not resolve semantic model name."))
                /\ pc' = "done"
                /\ UNCHANGED <<config, loc, calls>>
           ELSE \E resp \in ListResponses(registry) :
                /\ config' = [config EXCEPT !.modelName = itemName]
                /\ calls' = Append(calls, Call("list", NoId, IF resp.kind = "ok" THEN "2xx" ELSE resp.kind))
                /\ loc' = [loc EXCEPT !.workspaceId = workspaceId,
                                      !.itemName = itemName,
                                      !.listing = resp.items]
                /\ IF resp.kind = "exception"
                   THEN /\ Return(Error("Fabric API deployment failed: exception"))
                        /\ pc' = "done"
                   ELSE /\ pc' = "byId"
                        /\ UNCHANGED result
    /\ cacheFile' = IF pc' = "done" /\ result' # SaveFailed THEN Save(config') ELSE cacheFile
    /\ io' = [io EXCEPT
                !.prompts = IF /\ ~IsNullOrEmpty(ExtractWorkspaceId(config.workspaceUrl))
                               /\ ~env.ci
                               /\ NeedsNamePrompt(config.modelName, model.databaseName,
                                                  model.platformName)
                            THEN @ \cup {"Semantic model name"} ELSE @,
                !.saves = IF pc' = "done" /\ result' # SaveFailed THEN @ + 1 ELSE @]
    /\ UNCHANGED <<logicalMap, registry, now, poll, model, cmd, cli, env, runs, world, last, find, race>>

\* Lines 61-106: identity by logical id, and the rename on that path.
DeployByLogicalId ==
    /\ pc = "byId"
    /\ LET m == FindByLogicalId(loc.listing, logicalMap, loc.workspaceId, model.platformLogicalId)
           cachedItemId == IF model.platformLogicalId = NoId THEN NoId
                           ELSE GetMappedItemId(logicalMap, loc.workspaceId,
                                                model.platformLogicalId)
           wantsRename == /\ m.id # NoId
                          /\ ~IsNullOrWhiteSpace(loc.itemName)
                          /\ ~EqualsIgnoreCase(m.displayName, loc.itemName)
           seeded == IF m.seed
                     THEN MapWriteOutcomes(loc.workspaceId, model.platformLogicalId, m.id)
                     ELSE {TRUE}
       IN  \E written \in seeded :
           IF ~written
           THEN /\ Return(MapFailed)
                /\ pc' = "done"
                /\ UNCHANGED <<logicalMap, registry, config, loc, calls>>
           ELSE
           /\ logicalMap' = IF m.seed
                            THEN SetMappedItemId(logicalMap, loc.workspaceId,
                                                 model.platformLogicalId, m.id)
                            ELSE logicalMap
           /\ IF wantsRename
              THEN \E accept \in Answers :
                    LET answer == StatusClass(accept /\ RenameAccepted(registry, m.id, loc.itemName))
                        renameResult == RenameItem(answer)
                    IN
                    /\ calls' = Append(calls, Call("rename", m.id, answer))
                    /\ registry' = IF answer = "2xx" THEN Renamed(registry, m.id, loc.itemName)
                                   ELSE registry
                    /\ IF renameResult.success
                       THEN /\ config' = [config EXCEPT !.previousModelName = m.displayName]
                            /\ loc' = [loc EXCEPT !.cachedItemId = cachedItemId,
                                                  !.existingItemId = m.id,
                                                  !.existingDisplayName = m.displayName,
                                                  !.renamed = TRUE]
                            /\ pc' = "byName"
                            /\ UNCHANGED result
                       ELSE /\ Return(ErrorWith("Found semantic model by logicalId but failed to rename it: ",
                                                   renameResult.error))
                            /\ loc' = [loc EXCEPT !.cachedItemId = cachedItemId,
                                                  !.existingItemId = m.id,
                                                  !.existingDisplayName = m.displayName]
                            /\ pc' = "done"
                            /\ UNCHANGED config
              ELSE /\ loc' = [loc EXCEPT !.cachedItemId = cachedItemId,
                                         !.existingItemId = m.id,
                                         !.existingDisplayName = m.displayName]
                   /\ pc' = "byName"
                   /\ UNCHANGED <<registry, config, calls, result>>
    /\ ExecuteFinish(pc' = "done")
    /\ UNCHANGED <<now, poll, model, cmd, cli, env, runs, world, last, find, race>>

\* Lines 108-157: identity by desired name, then by the fallback names with
\* a rename.
DeployByName ==
    /\ pc = "byName"
    /\ LET d == FindByDesiredName(loc.listing, loc.itemName)
           fallbackNames == <<config.previousModelName, model.platformName, model.databaseName>>
           k == FallbackIndex(loc.listing, fallbackNames, loc.itemName)
       IN  IF loc.existingItemId # NoId
           THEN /\ pc' = "apply"
                /\ UNCHANGED <<logicalMap, registry, config, loc, calls, result>>
           ELSE IF d.id # NoId
           THEN \E written \in MapWriteOutcomes(loc.workspaceId, model.platformLogicalId, d.id) :
                IF written
                THEN /\ loc' = [loc EXCEPT !.existingItemId = d.id,
                                           !.existingDisplayName = d.displayName]
                     /\ logicalMap' = SetMappedItemId(logicalMap, loc.workspaceId,
                                                      model.platformLogicalId, d.id)
                     /\ pc' = "apply"
                     /\ UNCHANGED <<registry, config, calls, result>>
                ELSE /\ loc' = [loc EXCEPT !.existingItemId = d.id,
                                           !.existingDisplayName = d.displayName]
                     /\ Return(MapFailed)
                     /\ pc' = "done"
                     /\ UNCHANGED <<logicalMap, registry, config, calls>>
           ELSE IF k = 0
           THEN /\ pc' = "apply"
                /\ UNCHANGED <<logicalMap, registry, config, loc, calls, result>>
           ELSE LET fallbackName == fallbackNames[k]
                    fallbackItem == loc.listing[IndexByName(loc.listing, fallbackName)]
                IN  \E accept \in Answers :
                    LET answer == StatusClass(accept /\ RenameAccepted(registry, fallbackItem.id,
                                                                       loc.itemName))
                        renameResult == RenameItem(answer)
                    IN
                    /\ calls' = Append(calls, Call("rename", fallbackItem.id, answer))
                    /\ registry' = IF answer = "2xx"
                                   THEN Renamed(registry, fallbackItem.id, loc.itemName)
                                   ELSE registry
                    /\ IF renameResult.success
                       THEN \E written \in MapWriteOutcomes(loc.workspaceId,
                                                model.platformLogicalId, fallbackItem.id) :
                            /\ loc' = [loc EXCEPT !.existingItemId = fallbackItem.id,
                                                  !.existingDisplayName = fallbackName,
                                                  !.renamed = written]
                            /\ config' = [config EXCEPT !.previousModelName = fallbackName]
                            /\ logicalMap' = IF written
                                             THEN SetMappedItemId(logicalMap, loc.workspaceId,
                                                    model.platformLogicalId, fallbackItem.id)
                                             ELSE logicalMap
                            /\ pc' = IF written THEN "apply" ELSE "done"
                            /\ IF written THEN UNCHANGED result ELSE Return(MapFailed)
                       ELSE /\ Return(ErrorWith("Found existing semantic model but failed to rename it: ",
                                                   renameResult.error))
                            /\ pc' = "done"
                            /\ UNCHANGED <<logicalMap, config, loc>>
    /\ ExecuteFinish(pc' = "done")
    /\ UNCHANGED <<now, poll, model, cmd, cli, env, runs, world, last, find, race>>

\* The answers to a create-item request: refused, failed in transport,
\* created with the item in the body, or created with no id in the body.
\* The ids the service may give a new item: the byte-reversed logical id
\* when it is free, and one other free id.
NewIds(items) ==
    LET free == {id \in ItemIds : IndexById(items, id) = 0}
        other == free \ {TryMapLogicalIdToItemId(LogicalId)}
    IN  (free \cap {TryMapLogicalIdToItemId(LogicalId)})
        \cup (IF other = {} THEN {}
              ELSE {CHOOSE id \in other : \A x \in other : id[1] <= x[1]})

CreateResponses(items, itemName) ==
    (IF world = "pristine" THEN {} ELSE {"non2xx", "exception"})
    \cup (IF ~NameTaken(items, itemName, NoId) /\ \E id \in ItemIds : IndexById(items, id) = 0
          THEN {"created", "created-no-id", "accepted"} ELSE {})

\* The operation behind a create request answered 202 Accepted; any other
\* answer has no operation.
CreateScripts(kind) ==
    IF kind = "accepted"
    THEN {s \in Scripts : s.opId = "header" /\ s.running \in {0, 2}
                           /\ s.then \in {"Succeeded", "Failed"}}
    ELSE {[opId |-> "header", running |-> 0, then |-> "Succeeded", later |-> "Running"]}

\* The workspace when the created item is looked up by name: an accepted
\* create that is still running has not added the item yet.
ListedAfterCreate(items, kind, script, item) ==
    IF kind = "accepted" /\ ~(script.running = 0 /\ script.then = "Succeeded")
    THEN items ELSE Append(items, item)

\* The workspace once the create operation has ended.
AfterCreate(items, kind, script, item) ==
    IF kind = "accepted" /\ script.then # "Succeeded" THEN items ELSE Append(items, item)

\* What an update-definition request adds to the accepted and to the
\* succeeded operations (UpdateItemDefinitionAsync, lines 602-609).
UpdateAccepted(resp) == IF resp.kind = "accepted" THEN <<"update">> ELSE <<>>

UpdateSucceeded(resp) ==
    IF resp.kind = "accepted" /\ WaitForOperationCompletion(resp.script).success
    THEN <<"update">> ELSE <<>>

\* GetItemIdAsync, lines 403-415.
GetItemId(resp, itemName) ==
    IF resp.kind = "exception" \/ IndexByName(resp.items, itemName) = 0 THEN NoId
    ELSE resp.items[IndexByName(resp.items, itemName)].id

\* Lines 159-164 and CreateSemanticModelAsync, lines 420-479.
DeployCreate ==
    /\ pc = "apply"
    /\ loc.existingItemId = NoId
    /\ config' = [config EXCEPT !.previousModelName = loc.itemName]
    /\ \E kind \in CreateResponses(registry, loc.itemName) :
        IF kind \in {"non2xx", "exception"}
        THEN /\ calls' = Append(calls, Call("create", NoId, kind))
             /\ Return(IF kind = "non2xx"
                       THEN ErrorWith("Failed to create semantic model: ", HttpFailure)
                       ELSE Error("Failed to create semantic model: exception"))
             /\ UNCHANGED registry
             /\ UNCHANGED loc
        ELSE \E newId \in NewIds(registry), script \in CreateScripts(kind) :
             LET item == [id |-> newId, displayName |-> loc.itemName]
                 created == IF kind = "accepted" THEN <<"create">> ELSE <<>>
             IN
             /\ registry' = AfterCreate(registry, kind, script, item)
             /\ \E lst \in IF kind = "created" THEN {[kind |-> "ok", items |-> <<>>]}
                          ELSE ListResponses(ListedAfterCreate(registry, kind, script, item)) :
                 LET itemId == IF kind = "created" THEN newId ELSE GetItemId(lst, loc.itemName)
                     lookup == IF kind = "created" THEN <<>>
                               ELSE <<Call("list", NoId, IF lst.kind = "ok" THEN "2xx" ELSE lst.kind)>>
                 IN  IF itemId = NoId
                     THEN /\ calls' = Append(calls, Call("create", newId, "2xx")) \o lookup
                          /\ Return(Success("Successfully created semantic model"))
                          /\ loc' = [loc EXCEPT !.accepted = @ \o created]
                     ELSE \E upd \in UpdateResponses :
                          LET u == UpdateItemDefinition(itemId, TRUE, FALSE, upd) IN
                          /\ calls' = Append(calls, Call("create", newId, "2xx")) \o lookup \o u.calls
                          /\ Return(u.result)
                          /\ loc' = [loc EXCEPT
                                        !.accepted = @ \o created \o UpdateAccepted(upd),
                                        !.succeeded = @ \o UpdateSucceeded(upd)]
    /\ pc' = "done"
    /\ ExecuteFinish(TRUE)
    /\ UNCHANGED <<logicalMap, now, poll, model, cmd, cli, env, runs, world, last, find, race>>

\* Lines 165-174 and UpdateSemanticModelAsync, lines 484-493.
DeployUpdate ==
    /\ pc = "apply"
    /\ loc.existingItemId # NoId
    /\ config' = IF ~loc.renamed /\ ~IsNullOrWhiteSpace(loc.existingDisplayName)
                 THEN [config EXCEPT !.previousModelName = loc.existingDisplayName]
                 ELSE config
    /\ \E upd \in UpdateResponses :
        LET u == UpdateItemDefinition(loc.existingItemId, FALSE, loc.renamed, upd) IN
        /\ calls' = calls \o u.calls
        /\ Return(u.result)
        /\ loc' = [loc EXCEPT !.accepted = @ \o UpdateAccepted(upd),
                              !.succeeded = @ \o UpdateSucceeded(upd)]
    /\ pc' = "done"
    /\ ExecuteFinish(TRUE)
    /\ UNCHANGED <<logicalMap, registry, now, poll, model, cmd, cli, env, runs, world, last, find, race>>

-----------------------------------------------------------------------------
\* The environment: invocations by the operator, changes by other users.

MaxRuns == 3

NamesGiven == {"", "B", "C"}

\* The operator runs deploy again, with another --name or none.
Invoke ==
    /\ pc = "idle"
    /\ runs < MaxRuns
    /\ \E name \in NamesGiven : cli' = [cli EXCEPT !.name = name]
    /\ cmd' = "deploy"
    /\ pc' = "resolve"
    /\ runs' = runs + 1
    /\ UNCHANGED <<cacheFile, logicalMap, registry, now, poll, model, env, config, loc, calls,
                   io, result, world, last, find, race>>

\* The process ends; only the two cache files and the registry remain.
Exit ==
    /\ pc = "done"
    /\ pc' = "idle"
    /\ cmd' = ""
    /\ config' = EmptyConfig
    /\ loc' = NoLoc
    /\ calls' = <<>>
    /\ io' = NoIo
    /\ result' = NoResult
    /\ cli' = [cli EXCEPT !.name = ""]
    /\ UNCHANGED <<cacheFile, logicalMap, registry, now, poll, model, env, runs, world, last, find, race>>

\* Another user deletes an item of the workspace between two invocations.
ExternalDelete ==
    /\ pc = "idle"
    /\ world = "shared"
    /\ runs < MaxRuns
    /\ \E i \in 1..Len(registry) :
        registry' = [j \in 1..(Len(registry) - 1) |->
                        IF j < i THEN registry[j] ELSE registry[j + 1]]
    /\ UNCHANGED <<cacheFile, logicalMap, now, poll, model, pc, cmd, cli, env, config, loc,
                   calls, io, result, runs, world, last, find, race>>

Models ==
    [platformName : {"", "P"}, platformLogicalId : {NoId, LogicalId}, databaseName : {"A"}]

InitialRegistries ==
    {<<>>} \cup {<<[id |-> id, displayName |-> "A"]>> : id \in {<<1, 0>>, <<1, 1>>}}

\* What `login --interactive` leaves in the cache.
LoggedIn ==
    Save([EmptyConfig EXCEPT !.mode = "interactive", !.accessToken = InteractiveToken,
                             !.accessTokenExpiresOn = {TokenLifetimeMinutes}])

Init ==
    /\ world \in {"pristine", "shared"}
    /\ cacheFile = LoggedIn
    /\ logicalMap = NoMapFile
    /\ registry \in (IF world = "pristine" THEN {<<>>} ELSE InitialRegistries)
    /\ now = 0
    /\ poll = NoPoll
    /\ model \in Models
    /\ pc = "idle"
    /\ cmd = ""
    /\ cli = [NoCli EXCEPT !.workspace = WorkspaceUrl]
    /\ env = NoEnv
    /\ config = EmptyConfig
    /\ loc = NoLoc
    /\ calls = <<>>
    /\ io = NoIo
    /\ result = NoResult
    /\ runs = 0
    /\ find = NoFind
    /\ race = NoRace
    /\ last = NoLast

Next ==
    \/ Invoke
    \/ ExecuteResolve
    \/ ExecuteAcquireToken
    \/ DeployList
    \/ DeployByLogicalId
    \/ DeployByName
    \/ DeployCreate
    \/ DeployUpdate
    \/ Exit
    \/ ExternalDelete

Spec == Init /\ [][Next]_vars

-----------------------------------------------------------------------------
\* One deploy and its repetition: the same flags, environment and model
\* folder, the cache files and the workspace as the first deploy left them.

\* The item a finished deploy worked on: the one it found (lines 87, 119,
\* 151) or the one its create request was answered with.
DeployedItemId ==
    IF loc.existingItemId # NoId THEN loc.existingItemId
    ELSE LET created == {i \in 1..Len(calls) : calls[i].op = "create"}
         IN  IF created = {} THEN NoId ELSE calls[CHOOSE i \in created : TRUE].id

\* The operator runs the deploy that has just succeeded once more.
Repeat ==
    /\ pc = "done"
    /\ cmd = "deploy"
    /\ result.success
    /\ ~last.ran
    /\ last' = [ran |-> TRUE, itemId |-> DeployedItemId, registry |-> registry,
                calls |-> calls]
    /\ pc' = "resolve"
    /\ runs' = runs + 1
    /\ config' = EmptyConfig
    /\ loc' = NoLoc
    /\ calls' = <<>>
    /\ io' = NoIo
    /\ result' = NoResult
    /\ UNCHANGED <<cacheFile, logicalMap, registry, now, poll, model, cmd, cli, env, world,
                   find, race>>

NextRepeat ==
    \/ Invoke
    \/ ExecuteResolve
    \/ ExecuteAcquireToken
    \/ DeployList
    \/ DeployByLogicalId
    \/ DeployByName
    \/ DeployCreate
    \/ DeployUpdate
    \/ Repeat

SpecRepeat == Init /\ [][NextRepeat]_vars

-----------------------------------------------------------------------------
\* One deploy whose cache files may fail to be written.

InitWrite ==
    /\ world = "unwritable"
    /\ cacheFile = LoggedIn
    /\ logicalMap = NoMapFile
    /\ registry \in InitialRegistries
    /\ now = 0
    /\ poll = NoPoll
    /\ model \in Models
    /\ pc = "idle"
    /\ cmd = ""
    /\ cli = [NoCli EXCEPT !.workspace = WorkspaceUrl]
    /\ env = NoEnv
    /\ config = EmptyConfig
    /\ loc = NoLoc
    /\ calls = <<>>
    /\ io = NoIo
    /\ result = NoResult
    /\ runs = MaxRuns - 1
    /\ find = NoFind
    /\ race = NoRace
    /\ last = NoLast

NextWrite ==
    \/ Invoke
    \/ ExecuteResolve
    \/ ExecuteAcquireToken
    \/ DeployList
    \/ DeployByLogicalId
    \/ DeployByName
    \/ DeployCreate
    \/ DeployUpdate

SpecWrite == InitWrite /\ [][NextWrite]_vars

-----------------------------------------------------------------------------
\* One invocation, deploy or login, from any cache file an earlier run can
\* have left and any environment and flags.

\* What earlier runs can have saved: Save never writes a secret.
CachedConfigs ==
    {[EmptyConfig EXCEPT !.mode = "service-principal", !.workspaceUrl = "ws-cache",
                         !.clientId = "cid-cache", !.tenantId = "tid-cache",
                         !.accessToken = SpToken],
     [EmptyConfig EXCEPT !.mode = "interactive", !.workspaceUrl = "ws-cache",
                         !.accessToken = "tok-cache",
                         !.accessTokenExpiresOn = {TokenLifetimeMinutes},
                         !.modelName = "A", !.previousModelName = "A"],
     [EmptyConfig EXCEPT !.mode = "interactive", !.workspaceUrl = WorkspaceUrl,
                         !.accessToken = "tok-cache",
                         !.accessTokenExpiresOn = {RefreshBufferMinutes},
                         !.modelName = "B", !.previousModelName = "A"],
     [EmptyConfig EXCEPT !.mode = "interactive", !.workspaceUrl = WorkspaceUrl,
                         !.accessToken = "tok-cache",
                         !.accessTokenExpiresOn = {RefreshBufferMinutes - 1}],
     [EmptyConfig EXCEPT !.mode = "interactive", !.workspaceUrl = WorkspaceUrl,
                         !.accessToken = "tok-cache",
                         !.accessTokenExpiresOn = {2 * RefreshBufferMinutes}]}

CacheFiles == {NoJson, LoggedIn} \cup {Save(c) : c \in CachedConfigs}

\* TMDL_WORKSPACE_URL, TMDL_CLIENT_ID, TMDL_CLIENT_SECRET, TMDL_TENANT_ID.
EnvVarProfiles ==
    {NoEnv,
     [NoEnv EXCEPT !.workspaceUrl = "ws-env", !.clientId = "cid-env",
                   !.clientSecret = "secret-env", !.tenantId = "tid-env"],
     [NoEnv EXCEPT !.clientSecret = "secret-env"],
     [NoEnv EXCEPT !.workspaceUrl = "ws-env"]}

\* TMDL_AUTH_CONFIG.
LegacyProfiles ==
    {NoJson,
     [kind |-> "json",
      value |-> [EmptyConfig EXCEPT !.mode = "service-principal",
                                    !.workspaceUrl = "ws-legacy",
                                    !.clientId = "cid-legacy",
                                    !.clientSecret = "secret-legacy",
                                    !.tenantId = "tid-legacy"]],
     [kind |-> "json",
      value |-> [EmptyConfig EXCEPT !.mode = "Interactive",
                                    !.workspaceUrl = "ws-legacy",
                                    !.accessToken = "tok-legacy",
                                    !.clientSecret = "secret-legacy"]]}

CliProfiles ==
    {NoCli,
     [NoCli EXCEPT !.workspace = WorkspaceUrl],
     [NoCli EXCEPT !.workspace = WorkspaceUrl, !.name = "B"],
     [NoCli EXCEPT !.workspace = WorkspaceUrl, !.interactive = TRUE],
     [NoCli EXCEPT !.workspace = WorkspaceUrl, !.interactive = TRUE, !.noBrowser = TRUE],
     [NoCli EXCEPT !.workspace = WorkspaceUrl, !.servicePrincipal = TRUE,
                   !.clientId = "cid-flag", !.clientSecret = "secret-flag",
                   !.tenantId = "tid-flag"],
     [NoCli EXCEPT !.servicePrincipal = TRUE, !.clientId = "cid-flag"],
     [NoCli EXCEPT !.interactive = TRUE, !.servicePrincipal = TRUE]}

\* deploy --workspace .. --client-id .. --client-secret .. --tenant-id ..,
\* without a mode flag.
IdsOnlyCli == [NoCli EXCEPT !.workspace = WorkspaceUrl, !.clientId = "cid-flag",
                            !.clientSecret = "secret-flag", !.tenantId = "tid-flag"]

\* A model whose database.tmdl names the database, and one with no name in
\* .platform or database.tmdl.
NamedModel == [platformName |-> "", platformLogicalId |-> LogicalId, databaseName |-> "A"]
NamelessModel == [platformName |-> "", platformLogicalId |-> LogicalId, databaseName |-> ""]

\* A model whose .platform file carries a display name.
PlatformNamedModel == [platformName |-> "P", platformLogicalId |-> LogicalId,
                       databaseName |-> "A"]

InitResolve ==
    /\ world \in {"pristine", "shared"}
    /\ cmd \in {"deploy", "login"}
    /\ cacheFile \in CacheFiles \cup {CorruptJson}
    /\ cli \in CliProfiles \cup {IdsOnlyCli}
    /\ env \in {[v EXCEPT !.authJson = legacy, !.ci = ci] :
                    v \in EnvVarProfiles, legacy \in LegacyProfiles \cup {CorruptJson},
                    ci \in BOOLEAN}
    /\ logicalMap \in {NoMapFile, CorruptMapFile}
    /\ (CorruptJson \in {cacheFile, env.authJson} \/ logicalMap = CorruptMapFile) =>
            /\ cmd = "deploy"
            /\ cli = [NoCli EXCEPT !.workspace = WorkspaceUrl]
            /\ [env EXCEPT !.ci = FALSE, !.authJson = NoJson] = NoEnv
    /\ (cmd = "login") => (cli.name = "" /\ [env EXCEPT !.ci = FALSE] = NoEnv)
    /\ (cli = IdsOnlyCli) =>
            /\ cmd = "deploy"
            /\ cacheFile \in {NoJson, LoggedIn}
            /\ logicalMap = NoMapFile
            /\ [env EXCEPT !.ci = FALSE] = NoEnv
    /\ registry \in {<<>>, <<[id |-> <<1, 0>>, displayName |-> "A"]>>}
    /\ (cmd = "login" \/ world = "pristine") => registry = <<>>
    /\ now = 0
    /\ poll = NoPoll
    /\ model \in {NamedModel, NamelessModel, PlatformNamedModel}
    /\ (model # NamedModel) =>
            /\ cmd = "deploy"
            /\ cacheFile = LoggedIn
            /\ logicalMap = NoMapFile
            /\ [cli EXCEPT !.name = ""] = [NoCli EXCEPT !.workspace = WorkspaceUrl]
            /\ [env EXCEPT !.ci = FALSE] = NoEnv
    /\ pc = "resolve"
    /\ config = EmptyConfig
    /\ loc = NoLoc
    /\ calls = <<>>
    /\ io = NoIo
    /\ result = NoResult
    /\ runs = 1
    /\ find = NoFind
    /\ race = NoRace
    /\ last = NoLast

NextResolve ==
    \/ ExecuteResolve
    \/ ExecuteAcquireToken
    \/ Login
    \/ DeployList
    \/ DeployByLogicalId
    \/ DeployByName
    \/ DeployCreate
    \/ DeployUpdate

SpecResolve == InitResolve /\ [][NextResolve]_vars

-----------------------------------------------------------------------------
\* One accepted operation, polled to the end: the status endpoint answers
\* Running any number of times and then anything at all.

Statuses == {"Running", "NotStarted", "Succeeded", "Failed", "FailedNoMessage", "HttpError"}

PollScripts ==
    [opId : {"header", "location", "none"},
     running : 0..(MaxPollAttempts + 1),
     then : Statuses,
     later : Statuses]

NotPolled == <<>>

InitPoll ==
    /\ world = "shared"
    /\ cacheFile = LoggedIn
    /\ logicalMap = NoMapFile
    /\ registry = <<>>
    /\ now = 0
    /\ poll \in [script : PollScripts, outcome : {NotPolled}]
    /\ model = NamedModel
    /\ pc = "accepted"
    /\ cmd = "deploy"
    /\ cli = NoCli
    /\ env = NoEnv
    /\ config = EmptyConfig
    /\ loc = NoLoc
    /\ calls = <<>>
    /\ io = NoIo
    /\ result = NoResult
    /\ runs = 1
    /\ find = NoFind
    /\ race = NoRace
    /\ last = NoLast

\* WaitForOperationCompletionAsync on the accepted response.
Wait ==
    /\ pc = "accepted"
    /\ poll' = [poll EXCEPT !.outcome = WaitForOperationCompletion(poll.script)]
    /\ pc' = "polled"
    /\ UNCHANGED <<cacheFile, logicalMap, registry, now, model, cmd, cli, env,
                   config, loc, calls, io, result, runs, world, last, find, race>>

NextPoll == Wait

SpecPoll == InitPoll /\ [][NextPoll]_vars

-----------------------------------------------------------------------------
\* The accepted response on its own: its operation-id header, its Location
\* header and the Retry-After header of the status responses. A header is
\* the sequence of its values; a Location is the sequence of the path
\* segments of its URI; a Retry-After value is the sequence of its
\* characters.

\* TryExtractOperationId, lines 745-763: what follows the first
\* "/operations/", up to the next slash.
TryExtractOperationId(location) ==
    LET marks == {k \in 1..(Len(location) - 1) : ToLower(location[k]) = "operations"}
    IN  IF marks = {} THEN ""
        ELSE LET opId == location[(CHOOSE k \in marks : \A j \in marks : k <= j) + 1]
             IN  IF IsNullOrWhiteSpace(opId) THEN "" ELSE opId

\* An extraction that takes the last path segment for the operation id.
OperationIdFromLastSegment(operationIdValues, location) ==
    IF operationIdValues # <<>> /\ ~IsNullOrWhiteSpace(Head(operationIdValues))
    THEN Head(operationIdValues)
    ELSE IF location = Null \/ location[1] = <<>> THEN ""
    ELSE location[1][Len(location[1])]

\* WaitForOperationCompletionAsync, lines 678-686: the operation id of the
\* accepted response, "" when it has none.
OperationId(operationIdValues, location) ==
    IF operationIdValues # <<>> /\ ~IsNullOrWhiteSpace(Head(operationIdValues))
    THEN Head(operationIdValues)
    ELSE IF location = Null THEN ""
    ELSE TryExtractOperationId(location[1])

Digits == <<"0", "1", "2", "3", "4", "5", "6", "7", "8", "9">>

DigitValue(ch) == (CHOOSE d \in 1..Len(Digits) : Digits[d] = ch) - 1

IsDigit(ch) == \E d \in 1..Len(Digits) : Digits[d] = ch

RECURSIVE DecimalValue(_)
DecimalValue(chars) ==
    IF chars = <<>> THEN 0
    ELSE 10 * DecimalValue(SubSeq(chars, 1, Len(chars) - 1)) + DigitValue(chars[Len(chars)])

\* int.TryParse: the parsed number in a set, the empty set when the text
\* is not an integer.
TryParseInt(chars) ==
    LET digits == IF chars # <<>> /\ Head(chars) = "-" THEN Tail(chars) ELSE chars
    IN  IF digits = <<>> \/ \E i \in 1..Len(digits) : ~IsDigit(digits[i]) THEN {}
        ELSE IF Head(chars) = "-" THEN {0 - DecimalValue(digits)}
        ELSE {DecimalValue(digits)}

DefaultRetryDelaySeconds == 2

MaxRetryDelaySeconds == 10

\* A delay that takes the server's hint as it is.
RetryDelaySecondsUncapped(retryAfterValues) ==
    IF retryAfterValues = <<>> THEN DefaultRetryDelaySeconds
    ELSE LET parsed == TryParseInt(Head(retryAfterValues))
         IN  IF parsed # {} /\ (\E n \in parsed : n > 0)
             THEN CHOOSE n \in parsed : TRUE
             ELSE DefaultRetryDelaySeconds

\* Lines 729-737: the seconds to wait before the next status request.
RetryDelaySeconds(retryAfterValues) ==
    IF retryAfterValues = <<>> THEN DefaultRetryDelaySeconds
    ELSE LET parsed == TryParseInt(Head(retryAfterValues))
         IN  IF parsed # {} /\ (\E n \in parsed : n > 0)
             THEN (LET n == CHOOSE m \in parsed : TRUE
                   IN  IF n < MaxRetryDelaySeconds THEN n ELSE MaxRetryDelaySeconds)
             ELSE DefaultRetryDelaySeconds

OperationIdHeaders == { <<>>, <<"">>, <<" ">>, <<"op-h">> }

Locations ==
    { Null,
      << <<"v1", "operations", "op-l">> >>,
      << <<"v1", "Operations", "op-l", "result">> >>,
      << <<"v1", "operations", "">> >>,
      << <<"v1", "operations">> >>,
      << <<"v1", "workspaces", "W1">> >> }

RetryAfterValues ==
    { <<>>, << <<"0">> >>, << <<"-", "1">> >>, << <<"1">> >>, << <<"5">> >>,
      << <<"1", "0">> >>, << <<"1", "1">> >>, << <<"1", "2", "0">> >>,
      << <<"s", "o", "o", "n">> >> }

AcceptedScripts ==
    [opId : {"header"}, running : {0, 2}, then : {"Succeeded", "Failed"}, later : {"Running"}]

InitAccepted ==
    /\ world = "shared"
    /\ cacheFile = LoggedIn
    /\ logicalMap = NoMapFile
    /\ registry = <<>>
    /\ now = 0
    /\ poll \in [script : AcceptedScripts, operationIdValues : OperationIdHeaders,
                 location : Locations, retryAfterValues : RetryAfterValues,
                 operationId : {""}, delays : {<<>>}, outcome : {NotPolled}]
    /\ model = NamedModel
    /\ pc = "accepted"
    /\ cmd = "deploy"
    /\ cli = NoCli
    /\ env = NoEnv
    /\ config = EmptyConfig
    /\ loc = NoLoc
    /\ calls = <<>>
    /\ io = NoIo
    /\ result = NoResult
    /\ runs = 1
    /\ find = NoFind
    /\ race = NoRace
    /\ last = NoLast

\* WaitForOperationCompletionAsync on the accepted response, with the
\* waits it makes: one after every status answer that is not final.
WaitOnResponse ==
    /\ pc = "accepted"
    /\ LET operationId == OperationId(poll.operationIdValues, poll.location)
           outcome == WaitForOperationCompletion(
                          [poll.script EXCEPT !.opId = IF IsNullOrWhiteSpace(operationId)
                                                       THEN "none" ELSE "header"])
           waits == {n \in 1..outcome.polls : AsksAgain(Response(poll.script, n))}
       IN  poll' = [poll EXCEPT
                      !.operationId = operationId,
                      !.outcome = outcome,
                      !.delays = [n \in 1..Cardinality(waits) |->
                                     RetryDelaySeconds(poll.retryAfterValues)]]
    /\ pc' = "polled"
    /\ UNCHANGED <<cacheFile, logicalMap, registry, now, model, cmd, cli, env,
                   config, loc, calls, io, result, runs, world, last, find, race>>

NextAccepted == WaitOnResponse

SpecAccepted == InitAccepted /\ [][NextAccepted]_vars

-----------------------------------------------------------------------------
\* The logical-id map on its own: deploys that write and read it with
\* workspace ids taken from URLs written in either letter case.

WorkspaceIds == {"W1", "w1"}

LogicalIds == {<<0, 1>>, <<1, 0>>}

InitMap ==
    /\ world = "shared"
    /\ cacheFile = LoggedIn
    /\ logicalMap \in {NoMapFile, CorruptMapFile}
    /\ registry = <<>>
    /\ now = 0
    /\ poll = NoPoll
    /\ model = NamedModel
    /\ pc = "map"
    /\ cmd = "deploy"
    /\ cli = NoCli
    /\ env = NoEnv
    /\ config = EmptyConfig
    /\ loc = NoLoc
    /\ calls = <<>>
    /\ io = NoIo
    /\ result = NoResult
    /\ runs = 1
    /\ find = NoFind
    /\ race = NoRace
    /\ last = NoLast

\* TokenCacheService.SetMappedItemId(workspaceId, platformLogicalId, existingItemId).
MapSet ==
    /\ pc \in {"map", "mapped", "looked-up"}
    /\ \E w \in WorkspaceIds, l \in LogicalIds, id \in ItemIds :
        /\ logicalMap' = SetMappedItemId(logicalMap, w, l, id)
        /\ loc' = [loc EXCEPT !.workspaceId = w, !.existingItemId = id]
        /\ model' = [model EXCEPT !.platformLogicalId = l]
    /\ pc' = "mapped"
    /\ UNCHANGED <<cacheFile, registry, now, poll, cmd, cli, env, config, calls, io,
                   result, runs, world, last, find, race>>

\* cachedItemId = TokenCacheService.GetMappedItemId(workspaceId, platformLogicalId).
MapGet ==
    /\ pc \in {"map", "mapped", "looked-up"}
    /\ \E w \in WorkspaceIds, l \in LogicalIds :
        /\ loc' = [loc EXCEPT !.workspaceId = w,
                              !.cachedItemId = GetMappedItemId(logicalMap, w, l),
                              !.existingItemId = NoId]
        /\ model' = [model EXCEPT !.platformLogicalId = l]
    /\ pc' = "looked-up"
    /\ UNCHANGED <<cacheFile, logicalMap, registry, now, poll, cmd, cli, env, config,
                   calls, io, result, runs, world, last, find, race>>

NextMap ==
    \/ MapSet
    \/ MapGet

SpecMap == InitMap /\ [][NextMap]_vars

-----------------------------------------------------------------------------
\* LineNumberFinder on its own. A text is the sequence of its characters;
\* a declaration keyword is written as one element, a carriage return as
\* "CR" and a line feed as "LF".

\* string.Split(separators, StringSplitOptions.None): one piece per
\* separator character, empty pieces kept.
RECURSIVE Split(_, _)
Split(s, separators) ==
    IF \A i \in 1..Len(s) : s[i] \notin separators
    THEN <<s>>
    ELSE LET k == CHOOSE i \in 1..Len(s) :
                      /\ s[i] \in separators
                      /\ \A j \in 1..(i - 1) : s[j] \notin separators
         IN <<SubSeq(s, 1, k - 1)>> \o Split(SubSeq(s, k + 1, Len(s)), separators)

\* string.Trim on a line of text
RECURSIVE TrimLine(_)
TrimLine(line) ==
    IF line = <<>> THEN line
    ELSE IF Head(line) = " " THEN TrimLine(Tail(line))
    ELSE IF line[Len(line)] = " " THEN TrimLine(SubSeq(line, 1, Len(line) - 1))
    ELSE line

StartsWith(line, pattern) ==
    /\ Len(pattern) <= Len(line)
    /\ SubSeq(line, 1, Len(pattern)) = pattern

NeedsQuotes(name) == \E i \in 1..Len(name) : name[i] \in {" ", "=", ":", "'"}

RECURSIVE EscapeSingleQuotes(_)
EscapeSingleQuotes(name) ==
    IF name = <<>> THEN name
    ELSE (IF Head(name) = "'" THEN <<"'", "'">> ELSE <<Head(name)>>)
         \o EscapeSingleQuotes(Tail(name))

IsColumnDeclaration(line, name) ==
    StartsWith(line, IF NeedsQuotes(name)
                     THEN <<"column", " ", "'">> \o EscapeSingleQuotes(name) \o <<"'">>
                     ELSE <<"column", " ">> \o name)

IsMeasureDeclaration(line, name) ==
    StartsWith(line, IF NeedsQuotes(name)
                     THEN <<"measure", " ", "'">> \o EscapeSingleQuotes(name) \o <<"'">>
                     ELSE <<"measure", " ">> \o name)

IsPartitionDeclaration(line, name) ==
    StartsWith(line, IF NeedsQuotes(name)
                     THEN <<"partition", " ", "'">> \o EscapeSingleQuotes(name) \o <<"'">>
                     ELSE <<"partition", " ">> \o name)

IsRelationshipDeclaration(line, name) ==
    StartsWith(line, <<"relationship", " ">> \o name)

IsExpressionDeclaration(line, name) ==
    StartsWith(line, IF NeedsQuotes(name)
                     THEN <<"expression", " ", "'">> \o EscapeSingleQuotes(name) \o <<"'">>
                     ELSE <<"expression", " ">> \o name)

IsCultureDeclaration(line, name) ==
    StartsWith(line, <<"cultureInfo", " ">> \o name)

\* The switch of FindLineNumber on itemType.
Found(line, itemName, itemType) ==
    CASE itemType = "column" -> IsColumnDeclaration(line, itemName)
      [] itemType = "measure" -> IsMeasureDeclaration(line, itemName)
      [] itemType = "partition" -> IsPartitionDeclaration(line, itemName)
      [] itemType = "relationship" -> IsRelationshipDeclaration(line, itemName)
      [] itemType = "expression" -> IsExpressionDeclaration(line, itemName)
      [] itemType = "cultureInfo" -> IsCultureDeclaration(line, itemName)
      [] OTHER -> FALSE

\* LineNumberFinder.FindLineNumber; the int? is a set of at most one number.
FindLineNumber(file, itemName, itemType) ==
    IF ~file.exists THEN {}
    ELSE LET lines == Split(file.content, {"CR", "LF"})
             hits == {i \in 1..Len(lines) : Found(TrimLine(lines[i]), itemName, itemType)}
         IN IF hits = {} THEN {}
            ELSE {CHOOSE i \in hits : \A j \in hits : i <= j}

\* The lines a .tmdl file is written from.
FileLines ==
    { <<"table", " ", "T">>,
      <<>>,
      <<" ", " ", "column", " ", "A">>,
      <<"column", " ", "A", "B", " ">>,
      <<"measure", " ", "A", " ", "=", " ", "1">>,
      <<" ", "column", " ", "'", "A", " ", "B", "'">> }

MaxLines == 3

LineEndings == { <<"LF">>, <<"CR", "LF">> }

\* File.WriteAllText of the lines with one line ending between two lines.
RECURSIVE JoinLines(_, _)
JoinLines(lines, ending) ==
    IF Len(lines) = 1 THEN lines[1]
    ELSE lines[1] \o ending \o JoinLines(Tail(lines), ending)

MissingFile == [exists |-> FALSE, content |-> <<>>]

Files ==
    {MissingFile} \cup
    { [exists |-> TRUE, content |-> JoinLines(lines, ending)] :
        lines \in UNION { [1..n -> FileLines] : n \in 1..MaxLines },
        ending \in LineEndings }

ItemNames == { <<"A">>, <<"B">>, <<"A", " ", "B">> }

ItemTypes == {"column", "measure", "partition", "relationship", "expression",
              "cultureInfo", "table"}

InitFind ==
    /\ world = "shared"
    /\ cacheFile = LoggedIn
    /\ logicalMap = NoMapFile
    /\ registry = <<>>
    /\ now = 0
    /\ poll = NoPoll
    /\ model = NamedModel
    /\ pc = "find"
    /\ cmd = ""
    /\ cli = NoCli
    /\ env = NoEnv
    /\ config = EmptyConfig
    /\ loc = NoLoc
    /\ calls = <<>>
    /\ io = NoIo
    /\ result = NoResult
    /\ runs = 1
    /\ find \in { [exists |-> f.exists, content |-> f.content, itemName |-> n,
                   itemType |-> t, answer |-> {}] :
                  f \in Files, n \in ItemNames, t \in ItemTypes }
    /\ race = NoRace
    /\ last = NoLast

\* LineNumberFinder.FindLineNumber(filePath, itemName, itemType).
Find ==
    /\ pc = "find"
    /\ find' = [find EXCEPT !.answer = FindLineNumber(find, find.itemName, find.itemType)]
    /\ pc' = "found"
    /\ UNCHANGED <<cacheFile, logicalMap, registry, now, poll, model, cmd, cli, env,
                   config, loc, calls, io, result, runs, world, last, race>>

NextFind ==
    \/ Find

SpecFind == InitFind /\ [][NextFind]_vars

-----------------------------------------------------------------------------
\* Two invocations of separate processes at the cache files. Each one
\* stores a mapping (SetMappedItemId: read the file, set the entry, write
\* the file) and then saves its AuthConfig; nothing orders their reads and
\* writes. An event <<p, what>> records a read or a write of process p.

\* A write that keeps the entries of a map file that the text written
\* does not have.
WriteAllTextKeepingEntries(current, content) ==
    IF current.kind = "json" /\ content.kind = "json"
    THEN [content EXCEPT !.value = @ @@ current.value]
    ELSE content

\* File.WriteAllText: the file becomes the text written.
WriteAllText(current, content) == content

RaceProcs == {1, 2}

RaceKey(p) == BuildLogicalMapKey("W1", IF p = 1 THEN <<0, 1>> ELSE <<1, 0>>)

RaceConfig(p) ==
    [EmptyConfig EXCEPT !.mode = "interactive", !.accessToken = InteractiveToken,
                        !.workspaceUrl = WorkspaceUrl,
                        !.modelName = IF p = 1 THEN "A" ELSE "B"]

\* A map file an earlier deploy of a third model left.
EarlierMapFile ==
    SaveLogicalMap(SetItem(NewDictionary(TRUE), BuildLogicalMapKey("W1", <<1, 1>>), <<1, 1>>))

InitRace ==
    /\ world = "shared"
    /\ cacheFile = LoggedIn
    /\ logicalMap \in {NoMapFile, CorruptMapFile, EarlierMapFile}
    /\ registry = <<>>
    /\ now = 0
    /\ poll = NoPoll
    /\ model = NamedModel
    /\ pc = "race"
    /\ cmd = "deploy"
    /\ cli = NoCli
    /\ env = NoEnv
    /\ config = EmptyConfig
    /\ loc = NoLoc
    /\ calls = <<>>
    /\ io = NoIo
    /\ result = NoResult
    /\ runs = 2
    /\ find = NoFind
    /\ race \in { [procs |-> [p \in RaceProcs |->
                                [pc |-> "set", itemId |-> ids[p], map |-> Null]],
                   events |-> <<>>] :
                  ids \in [RaceProcs -> {<<0, 1>>, <<1, 0>>}] }
    /\ last = NoLast

\* SetMappedItemId, line 140: p reads the map file.
RaceLoad(p) ==
    /\ pc = "race"
    /\ race.procs[p].pc = "set"
    /\ race' = [race EXCEPT
                  !.procs[p].pc = "loaded",
                  !.procs[p].map = <<IF LoadLogicalMap(logicalMap) = Null
                                     THEN NewDictionary(TRUE)
                                     ELSE LoadLogicalMap(logicalMap)[1]>>,
                  !.events = Append(@, <<p, "read-map">>)]
    /\ UNCHANGED <<cacheFile, logicalMap, registry, now, poll, model, pc, cmd, cli, env,
                   config, loc, calls, io, result, runs, world, last, find>>

\* SetMappedItemId, lines 141-142: p sets its entry and writes the file.
RaceSave(p) ==
    /\ pc = "race"
    /\ race.procs[p].pc = "loaded"
    /\ logicalMap' = WriteAllText(logicalMap,
                        SaveLogicalMap(SetItem(race.procs[p].map[1], RaceKey(p),
                                               race.procs[p].itemId)))
    /\ race' = [race EXCEPT !.procs[p].pc = "mapped",
                            !.events = Append(@, <<p, "write-map">>)]
    /\ UNCHANGED <<cacheFile, registry, now, poll, model, pc, cmd, cli, env,
                   config, loc, calls, io, result, runs, world, last, find>>

\* DeployCommand.Execute, line 90: p saves its AuthConfig.
RaceSaveConfig(p) ==
    /\ pc = "race"
    /\ race.procs[p].pc = "mapped"
    /\ cacheFile' = WriteAllText(cacheFile, Save(RaceConfig(p)))
    /\ race' = [race EXCEPT !.procs[p].pc = "done",
                            !.events = Append(@, <<p, "write-auth">>)]
    /\ UNCHANGED <<logicalMap, registry, now, poll, model, pc, cmd, cli, env,
                   config, loc, calls, io, result, runs, world, last, find>>

NextRace ==
    \E p \in RaceProcs :
        \/ RaceLoad(p)
        \/ RaceSave(p)
        \/ RaceSaveConfig(p)

SpecRace == InitRace /\ [][NextRace]_vars

-----------------------------------------------------------------------------
\* Properties of credential resolution (checked under SpecResolve).

SourceFields == {"mode", "workspaceUrl", "clientId", "clientSecret", "tenantId", "accessToken"}

Supplies(source, f) == source # Null /\ ~IsNullOrEmpty(source[1][f])

SetByFlag(f) ==
    CASE f = "workspaceUrl" -> ~IsNullOrWhiteSpace(cli.workspace)
      [] f = "mode" -> cli.interactive \/ cli.servicePrincipal
      [] f = "clientId" -> ~IsNullOrWhiteSpace(cli.clientId)
      [] f = "clientSecret" -> ~IsNullOrWhiteSpace(cli.clientSecret)
      [] f = "tenantId" -> ~IsNullOrWhiteSpace(cli.tenantId)
      [] OTHER -> FALSE

\* The deploy has resolved and validated its configuration and has not yet
\* asked for a token: the cache file is still the one that was loaded.
Resolved == cmd = "deploy" /\ pc = "token"

\* The deploy is about to call DeployAsync.
AtReconciliation == cmd = "deploy" /\ pc = "deploy"

\* C1: for every field and every two of the sources cache, individual
\* environment variables and legacy JSON that both supply a non-empty value,
\* the resolved configuration carries the value of the higher-priority
\* source, the priority being cache < environment variables < legacy JSON
\* (fields set by a flag aside).
C1_MergePriority ==
    Resolved =>
        \A f \in SourceFields :
            LET cache == Load(cacheFile)
                individual == ResolveFromIndividualEnvVars(env)
                legacy == ResolveFromLegacyEnvVar(env)
            IN  ~SetByFlag(f) =>
                /\ (Supplies(legacy, f) /\ (Supplies(individual, f) \/ Supplies(cache, f)))
                        => config[f] = legacy[1][f]
                /\ (~Supplies(legacy, f) /\ Supplies(individual, f) /\ Supplies(cache, f))
                        => config[f] = individual[1][f]

\* What the flags other than --client-secret put into the configuration.
FlagsOtherThanSecretPrevail ==
    /\ ~IsNullOrWhiteSpace(cli.workspace) => config.workspaceUrl = cli.workspace
    /\ cli.interactive => config.mode = "interactive"
    /\ cli.servicePrincipal => config.mode = "service-principal"
    /\ ~IsNullOrWhiteSpace(cli.clientId) => config.clientId = cli.clientId
    /\ ~IsNullOrWhiteSpace(cli.tenantId) => config.tenantId = cli.tenantId
    /\ ~IsNullOrWhiteSpace(cli.name) => config.modelName = cli.name

\* C2 (as the code has it): whatever the cache, the environment and the
\* legacy JSON hold, a non-empty flag value (workspace, client id, tenant id,
\* mode flag, name) is the value of the configuration at the end of
\* resolution and at the start of reconciliation; the client secret given by
\* flag is the configuration's secret at the end of resolution, and in
\* service-principal mode the configuration holds no secret at the start of
\* reconciliation.
C2_CliFlagsPrevail ==
    /\ (Resolved \/ AtReconciliation) => FlagsOtherThanSecretPrevail
    /\ (Resolved /\ ~IsNullOrWhiteSpace(cli.clientSecret))
            => config.clientSecret = cli.clientSecret
    /\ (AtReconciliation /\ ToLower(config.mode) # "interactive")
            => config.clientSecret = ""

\* C2 as stated: the client secret given by flag is also the configuration's
\* secret at the start of reconciliation.
C2_CliFlagsPrevailAsStated ==
    (Resolved \/ AtReconciliation) =>
        /\ FlagsOtherThanSecretPrevail
        /\ ~IsNullOrWhiteSpace(cli.clientSecret) => config.clientSecret = cli.clientSecret

\* Flags for every credential field met competing values from the
\* environment and the legacy JSON, and the deploy reached reconciliation.
C2_Witness ==
    /\ AtReconciliation
    /\ cli.clientId = "cid-flag" /\ cli.clientSecret = "secret-flag"
    /\ cli.workspace = WorkspaceUrl
    /\ env.clientId = "cid-env" /\ env.workspaceUrl = "ws-env"
    /\ Supplies(ResolveFromLegacyEnvVar(env), "clientId")
    /\ config.clientId = "cid-flag" /\ config.workspaceUrl = WorkspaceUrl

\* C3: the persisted auth state never holds a non-empty client secret: what
\* Load returns after any Save has an empty clientSecret.
C3_NoPersistedSecret ==
    Load(cacheFile) # Null => IsNullOrEmpty(Load(cacheFile)[1].clientSecret)

\* A configuration that holds a secret in memory has just been saved.
C3_Witness ==
    /\ io.saves > 0
    /\ ~IsNullOrEmpty(config.clientSecret)
    /\ Load(cacheFile) = <<[config EXCEPT !.clientSecret = ""]>>

-----------------------------------------------------------------------------
\* Properties of reconciliation (checked under Spec).

Finished == cmd = "deploy" /\ pc = "done"

CallsOf(ops) == {i \in 1..Len(calls) : calls[i].op \in ops}

ListedIds == {loc.listing[k].id : k \in 1..Len(loc.listing)}

\* C4: a non-2xx answer to any remote call of a deploy (list, create, rename,
\* update-definition, operation status) is fatal: the deploy ends in an error
\* whose message carries the status code and body, and no create, rename or
\* update call follows that answer.
C4_Non2xxIsFatal ==
    Finished =>
        \A i \in 1..Len(calls) :
            calls[i].answer = "non2xx" =>
                /\ ~result.success
                /\ result.detail = HttpFailure
                /\ \A j \in (i + 1)..Len(calls) :
                        calls[j].op \notin {"create", "rename", "update"}

\* C5: when nothing matches and the reconciler creates the item, it issues
\* exactly one create call, and afterwards the mapping cache maps
\* (workspaceId, logicalId) to the id of the created item.
C5_CreateSeedsMapping ==
    (Finished /\ model.platformLogicalId # NoId) =>
        \A i \in CallsOf({"create"}) :
            calls[i].answer = "2xx" =>
                /\ Cardinality(CallsOf({"create"})) = 1
                /\ GetMappedItemId(logicalMap, loc.workspaceId, model.platformLogicalId)
                        = calls[i].id

\* C6: a cached mapping is never trusted on its own: the item a deploy
\* settles on is in the listing it fetched, and every rename or
\* update-definition call targets an id of that listing or the id of an item
\* this deploy created.
C6_TargetsAreLive ==
    /\ loc.existingItemId # NoId => loc.existingItemId \in ListedIds
    /\ \A i \in CallsOf({"rename", "update"}) :
            \/ calls[i].id \in ListedIds
            \/ \E j \in 1..(i - 1) :
                    /\ calls[j].op = "create"
                    /\ calls[j].answer = "2xx"
                    /\ calls[j].id = calls[i].id

\* The cached id was absent from the listing, and the deploy went on to
\* update another item.
C6_Witness ==
    /\ Finished
    /\ loc.cachedItemId # NoId
    /\ loc.cachedItemId \notin ListedIds
    /\ \E i \in CallsOf({"update"}) : calls[i].id # loc.cachedItemId

\* C7: a rename the service refuses ends the deploy with an error: it is the
\* deploy's last call, so no create and no update-definition follows, on the
\* logical-id path and on the fallback-name path.
C7_FailedRenameEndsDeploy ==
    \A i \in CallsOf({"rename"}) :
        calls[i].answer # "2xx" =>
            /\ i = Len(calls)
            /\ Finished
            /\ ~result.success

\* A rename on the fallback-name path was refused.
C7_Witness ==
    /\ Finished
    /\ Len(calls) > 0
    /\ calls[Len(calls)].op = "rename"
    /\ calls[Len(calls)].answer = "non2xx"
    /\ loc.existingItemId = NoId

\* The listing held no item for the logical id (neither the cached id nor
\* the byte-reversed one) and none with the desired name, and an item was
\* found all the same: under a fallback name, previousModelName first.
FoundOnlyUnderFallback ==
    /\ Finished
    /\ loc.existingItemId # NoId
    /\ \/ model.platformLogicalId = NoId
       \/ /\ loc.cachedItemId \notin ListedIds
          /\ TryMapLogicalIdToItemId(model.platformLogicalId) \notin ListedIds
    /\ IndexByName(loc.listing, loc.itemName) = 0

\* C8: when the item is found only under previousModelName and the desired
\* name differs, the deploy issues exactly one rename call, it precedes the
\* update-definition call, and the success message says the item was renamed.
C8_RenameBeforeUpdate ==
    FoundOnlyUnderFallback =>
        /\ Cardinality(CallsOf({"rename"})) = 1
        /\ Cardinality(CallsOf({"update"})) = 1
        /\ \A r \in CallsOf({"rename"}), u \in CallsOf({"update"}) : r < u
        /\ result.success => result.message = "Successfully renamed and updated semantic model"

\* Found under previousModelName, which is neither the platform name nor the
\* database name, renamed, updated, and reported.
C8_Witness ==
    /\ FoundOnlyUnderFallback
    /\ result.success
    /\ loc.existingDisplayName \notin {model.platformName, model.databaseName}
    /\ config.previousModelName = loc.existingDisplayName

\* C9: in a workspace that only these deploys change, successive successful
\* deploys of the model that differ only in --name never create a second
\* remote item.
C9_NoSecondItem ==
    world = "pristine" => Len(registry) <= 1

\* C10: with a name override, the resolved previousModelName is the model
\* name the previous run resolved (the cached modelName) and the resolved
\* modelName is the override.
C10_OverrideKeepsPreviousName ==
    (/\ Resolved
     /\ ~IsNullOrWhiteSpace(cli.name)
     /\ Load(cacheFile) # Null
     /\ ~IsNullOrWhiteSpace(Load(cacheFile)[1].modelName))
        => /\ config.previousModelName = Load(cacheFile)[1].modelName
           /\ config.modelName = cli.name

-----------------------------------------------------------------------------
\* Properties of one invocation (checked under SpecResolve).

Started(flow) == \E i \in 1..Len(io.tokenFlows) : io.tokenFlows[i] = flow

\* The deploy has ended, its configuration was valid and interactive, and it
\* holds no usable token: none was cached or supplied, and none was acquired.
EndedWithoutToken ==
    /\ Finished
    /\ ToLower(config.mode) = "interactive"
    /\ ValidateAuthConfig(config) = ""
    /\ ~HasUsableAccessToken(config, now)

C13_BothModesRefused ==
    (cli.interactive /\ cli.servicePrincipal /\ pc # "resolve") =>
        /\ pc = "done"
        /\ result \in {Error("Use either --interactive or --service-principal, not both."),
                       Error("ERROR: Use either --interactive or --service-principal, not both.")}
        /\ io.tokenFlows = <<>>
        /\ calls = <<>>
        /\ io.saves = 0
        /\ io.prompts = {}

\* A deploy with both flags ended, with a cache file in place that it could
\* have overwritten.
C13_Witness ==
    /\ Finished
    /\ cli.interactive /\ cli.servicePrincipal
    /\ Load(cacheFile) # Null
    /\ result = Error("Use either --interactive or --service-principal, not both.")

\* The flows of the token acquirer that the invocation has started.
TokenServiceFlows == {i \in 1..Len(io.tokenFlows) : io.tokenFlows[i] # "azure-cli"}

\* The positions of Execute inside TmdlService.Deploy.
Reconciling == pc \in {"deploy", "byId", "byName", "apply"}

\* C14: within one deploy invocation, the token acquirer starts only when
\* resolution and validation have completed with a valid configuration and
\* before any remote call; every remote reconciliation call (list, create,
\* rename, update, status poll) is made after token acquisition, with a
\* non-empty access token.
C14_StagesInOrder ==
    [][cmd = "deploy" =>
        /\ TokenServiceFlows' # TokenServiceFlows =>
              /\ pc = "token"
              /\ ValidateAuthConfig(config) = ""
              /\ calls = <<>>
        /\ calls' # calls =>
              /\ Reconciling
              /\ ValidateAuthConfig(config) = ""
              /\ ~IsNullOrEmpty(config.accessToken)
              /\ config'.accessToken = config.accessToken
              /\ io'.tokenFlows = io.tokenFlows
        /\ pc' = "token" => pc = "resolve"
        /\ pc' = "deploy" => pc \in {"token", "deploy"}
        /\ pc' \in {"byId", "byName", "apply"} => Reconciling]_vars

\* A deploy that signed in by device code and then reached the service.
C14_Witness ==
    /\ Finished
    /\ Started("device-code")
    /\ calls # <<>>
    /\ result.success

-----------------------------------------------------------------------------
\* Properties of the operation poller (checked under SpecPoll).

Polled == pc = "polled" /\ poll.script.opId # "none"

NonTerminal(status) == status \in {"Running", "NotStarted"}

\* The position, among the first MaxPollAttempts answers, of the first one
\* that is not a non-terminal status; 0 when there is none.
FirstTerminal ==
    LET ends == {n \in 1..MaxPollAttempts : ~NonTerminal(Response(poll.script, n))}
    IN  IF ends = {} THEN 0 ELSE CHOOSE n \in ends : \A m \in ends : n <= m

\* C16: the poller returns success exactly when the first terminal answer
\* among the first 60 is the status Succeeded, and it has then issued
\* exactly as many status requests as the position of that answer.
C16_SuccessIffFirstTerminalSucceeded ==
    /\ Polled =>
        /\ poll.outcome.success <=>
              (FirstTerminal > 0 /\ Response(poll.script, FirstTerminal) = "Succeeded")
        /\ poll.outcome.success => poll.outcome.polls = FirstTerminal
    /\ (pc = "polled" /\ poll.script.opId = "none") =>
        (~poll.outcome.success /\ poll.outcome.polls = 0)

\* Running, Running, Succeeded: success after exactly 3 polls.
C16_Witness ==
    /\ Polled
    /\ poll.script.running = 2 /\ poll.script.then = "Succeeded"
    /\ poll.outcome.success
    /\ poll.outcome.polls = 3

C18_AtMostSixtyPollsThenTimeout ==
    pc = "polled" =>
        /\ poll.outcome.polls <= MaxPollAttempts
        /\ (Polled /\ FirstTerminal = 0) =>
              /\ ~poll.outcome.success
              /\ poll.outcome.polls = MaxPollAttempts
              /\ poll.outcome.error = "Timed out waiting for operation completion."
              /\ poll.outcome.error \notin {ServerMessage, "Operation failed."}

\* 61 Running answers, the 62nd would have been Succeeded.
C18_Witness ==
    /\ Polled
    /\ poll.script.running = MaxPollAttempts + 1
    /\ poll.script.then = "Succeeded"
    /\ poll.outcome.polls = MaxPollAttempts
    /\ ~poll.outcome.success

-----------------------------------------------------------------------------
\* Token freshness (checked under SpecResolve).

AtInteractiveTokenStage ==
    cmd = "deploy" /\ pc = "token" /\ ToLower(config.mode) = "interactive"

\* Non-empty, and no recorded expiry or an expiry more than 5 minutes ahead.
UsableAsSpecified(c) ==
    /\ c.accessToken # ""
    /\ \A e \in c.accessTokenExpiresOn : e - now > 5

CachedTokenUsable ==
    Load(cacheFile) # Null /\ UsableAsSpecified(Load(cacheFile)[1])

\* C19: the access token of the resolved configuration (from the cache or
\* from another source) is usable exactly when it is non-empty and has no
\* recorded expiry or one more than 5 minutes after the current time; an
\* interactive deploy keeps a usable token and signs in for a new one,
\* or ends in an error, exactly when the token is not usable.
C19_FreshTokenIsReused ==
    [][AtInteractiveTokenStage =>
        /\ HasUsableAccessToken(config, now) <=> UsableAsSpecified(config)
        /\ IF UsableAsSpecified(config)
           THEN /\ pc' = "deploy"
                /\ config' = config
                /\ io'.tokenFlows = io.tokenFlows
           ELSE \/ /\ pc' = "deploy"
                   /\ config'.accessToken = InteractiveToken
                   /\ config'.accessTokenExpiresOn = {now + TokenLifetimeMinutes}
                   /\ TokenServiceFlows' # TokenServiceFlows
                \/ /\ pc' = "done"
                   /\ ~result'.success
                   /\ config' = config]_vars

\* C19 as stated: an interactive deploy that gets past token acquisition has
\* a new token exactly when the token in the cache file was not usable.
C19_FreshTokenIsReusedAsStated ==
    [][(AtInteractiveTokenStage /\ pc' = "deploy") =>
        (io'.tokenFlows # <<>> <=> ~CachedTokenUsable)]_vars

\* A cached token expiring exactly 5 minutes from now was not used: the
\* deploy went to device-code sign-in, which failed and left the cache alone.
C19_Witness ==
    /\ Finished
    /\ Load(cacheFile) # Null
    /\ Load(cacheFile)[1].accessTokenExpiresOn = {now + 5}
    /\ config.accessToken = Load(cacheFile)[1].accessToken
    /\ Started("device-code")
    /\ ~result.success

-----------------------------------------------------------------------------
\* The result of a deploy (checked under SpecResolve).

\* C20: every deploy invocation writes its structured result (success flag
\* and non-empty message) on the step that ends it, whichever way it ends,
\* and writes nothing before or after: exactly one result.
C20_ExactlyOneResult ==
    [][cmd = "deploy" =>
        /\ (pc # "done" /\ pc' = "done") =>
              /\ result = NoResult
              /\ result'.success \in BOOLEAN
              /\ result'.message # ""
        /\ pc' # "done" => result' = NoResult
        /\ pc = "done" => (pc' = "done" /\ result' = result)]_vars

\* A deploy whose update was accepted and never completed ended with the
\* timeout as its result.
C20_Witness ==
    /\ Finished
    /\ result = Error("Failed to update definition: Timed out waiting for operation completion.")
    /\ \E i \in 1..Len(calls) : calls[i].op = "status"

-----------------------------------------------------------------------------
\* Unreadable inputs (checked under SpecResolve).

\* The input as it would be if the unreadable file or variable did not exist.
Absent(file) == IF file.kind = "corrupt" THEN NoJson ELSE file

AbsentMap(file) == IF file.kind = "corrupt" THEN NoMapFile ELSE file

WithoutUnparsable(e) == [e EXCEPT !.authJson = Absent(@)]

SomeInputUnreadable ==
    \/ cacheFile.kind = "corrupt"
    \/ env.authJson.kind = "corrupt"
    \/ logicalMap.kind = "corrupt"

\* C21: an unreadable auth cache loads as nothing, an unparsable legacy
\* variable contributes nothing, an unreadable logical-id map answers every
\* Get with nothing; resolution and every use of the map give what they
\* give when the input does not exist, and the deploy does not end in an
\* exception on account of the input.
C21_UnreadableIsAbsent ==
    /\ Load(cacheFile) = Load(Absent(cacheFile))
    /\ ResolveFromLegacyEnvVar(env) = ResolveFromLegacyEnvVar(WithoutUnparsable(env))
    /\ MergeSources(cacheFile, env) = MergeSources(Absent(cacheFile), WithoutUnparsable(env))
    /\ \A w \in {"W1", "w1"}, l \in {LogicalId}, id \in ItemIds :
          /\ GetMappedItemId(logicalMap, w, l) = GetMappedItemId(AbsentMap(logicalMap), w, l)
          /\ SetMappedItemId(logicalMap, w, l, id) = SetMappedItemId(AbsentMap(logicalMap), w, l, id)
    /\ FindByLogicalId(loc.listing, logicalMap, loc.workspaceId, model.platformLogicalId)
          = FindByLogicalId(loc.listing, AbsentMap(logicalMap), loc.workspaceId,
                            model.platformLogicalId)
    /\ (cmd = "deploy" /\ pc = "resolve") =>
          \A choice \in {"interactive", "service-principal"}, azToken \in {"", AzToken} :
              ResolveAuthConfig(cacheFile, env, cli, choice, azToken, now)
                = ResolveAuthConfig(Absent(cacheFile), WithoutUnparsable(env), cli,
                                    choice, azToken, now)
    /\ (SomeInputUnreadable /\ Finished /\ ~result.success) =>
          /\ result.message # "Failed to resolve authentication configuration."
          /\ result.message # "Fabric API deployment failed: exception" \/ calls # <<>>

\* With an unreadable cache, an unparsable legacy variable and an unreadable
\* map, the operator chose interactive sign-in and the deploy succeeded.
C21_Witness ==
    /\ Finished
    /\ env.authJson.kind = "corrupt"
    /\ Load(cacheFile) # Null
    /\ Load(cacheFile)[1].accessToken = InteractiveToken
    /\ ~Supplies(Load(cacheFile), "clientId")
    /\ "Select authentication mode:" \in io.prompts
    /\ result.success

-----------------------------------------------------------------------------
\* Properties of the logical-id map (checked under SpecMap).

\* C22: after Set(w, l, id), Get(w', l) returns id for every w' equal to w
\* ignoring letter case, and the persisted map never holds two keys that
\* differ only in letter case.
C22_KeysIgnoreCase ==
    /\ pc = "mapped" =>
          \A w \in WorkspaceIds :
              EqualsIgnoreCase(w, loc.workspaceId) =>
                  GetMappedItemId(logicalMap, w, model.platformLogicalId) = loc.existingItemId
    /\ \A k1, k2 \in DOMAIN logicalMap.value :
          (EqualsIgnoreCase(k1[1], k2[1]) /\ k1[2] = k2[2]) => k1 = k2

-----------------------------------------------------------------------------
\* Properties of interactive sign-in (checked under SpecResolve).

FlowRank(flow) ==
    CASE flow = "azure-cli" -> 0
      [] flow = "silent" -> 1
      [] flow = "browser" -> 2
      [] flow = "device-code" -> 3
      [] OTHER -> 4

InteractiveAcquisitionFailed ==
    /\ pc = "done"
    /\ result \in {Error("Deployment command failed: Failed to acquire token"),
                   Error("ERROR: Login failed: Failed to acquire token")}

\* C23: outside CI the flows of an interactive sign-in start in the order
\* silent reuse, browser, device code, and a sign-in is reported as failed
\* only after the device-code flow was attempted.
C23_DeviceCodeBeforeFailure ==
    ~env.ci =>
        /\ \A i, j \in 1..Len(io.tokenFlows) :
              i < j => FlowRank(io.tokenFlows[i]) < FlowRank(io.tokenFlows[j])
        /\ InteractiveAcquisitionFailed => Started("device-code")

ServicePrincipalAcquisitionFailed ==
    /\ pc = "done"
    /\ result \in
        {Error("Deployment command failed: Failed to acquire token for service principal"),
         Error("ERROR: Login failed: Failed to acquire token for service principal")}

\* C24: when the service-principal exchange or the interactive sign-in
\* fails, the invocation ends in an error result after one attempt (one
\* exchange; each interactive flow at most once), with no remote call and no
\* write of the auth cache.
C24_FailedAcquisitionIsFatal ==
    (InteractiveAcquisitionFailed \/ ServicePrincipalAcquisitionFailed) =>
        /\ ~result.success
        /\ calls = <<>>
        /\ io.saves = 0
        /\ \A i, j \in 1..Len(io.tokenFlows) : io.tokenFlows[i] = io.tokenFlows[j] => i = j
        /\ TokenServiceFlows # {}
        /\ ServicePrincipalAcquisitionFailed => io.tokenFlows = <<"service-principal">>

\* A deploy with a cache file in place asked for the secret, was turned down
\* by the token endpoint once, and ended.
C24_Witness ==
    /\ Finished
    /\ Load(cacheFile) # Null
    /\ "Client Secret" \in io.prompts
    /\ io.tokenFlows = <<"service-principal">>
    /\ result = Error("Deployment command failed: Failed to acquire token for service principal")

-----------------------------------------------------------------------------
\* The client secret and the emitted text (checked under SpecResolve).

SecretValues == {"secret-env", "secret-legacy", "secret-flag", PromptedSecret, "another-secret"}

\* The same input with another secret wherever there is one.
OtherSecret(secret) == IF IsNullOrWhiteSpace(secret) THEN secret ELSE "another-secret"

WithOtherSecret(e) ==
    [e EXCEPT !.clientSecret = OtherSecret(@),
              !.authJson = [@ EXCEPT !.value = [@ EXCEPT !.clientSecret = OtherSecret(@)]]]

NoSecret(c) == [c EXCEPT !.clientSecret = ""]

LoginTexts ==
    {"ERROR: Use either --interactive or --service-principal, not both.",
     "Unhandled exception: Non-interactive environment detected.",
     "ERROR: Login failed: Non-interactive environment detected.",
     "ERROR: Login failed: Failed to acquire token",
     "ERROR: Login failed: " \o CiMessage,
     "ERROR: Login failed: Failed to acquire token for service principal",
     "Login successful."}

-----------------------------------------------------------------------------
\* The lines of a text when a CR LF pair is one line break: the pieces
\* between line feeds, without the carriage return that ends a piece.
TextLines(content) ==
    LET pieces == Split(content, {"LF"})
    IN [i \in 1..Len(pieces) |->
            IF pieces[i] # <<>> /\ pieces[i][Len(pieces[i])] = "CR"
            THEN SubSeq(pieces[i], 1, Len(pieces[i]) - 1)
            ELSE pieces[i]]

\* The 1-based numbers of the lines of the query's file that declare its item.
DeclaringLines(q) ==
    {i \in 1..Len(TextLines(q.content)) :
        Found(TrimLine(TextLines(q.content)[i]), q.itemName, q.itemType)}

\* C26: FindLineNumber answers the 1-based number of the first line whose
\* trimmed text starts with the declaration of the requested type and name,
\* a CR LF pair counting as one line break, and answers null when the file
\* does not exist or no line matches.
C26_FirstDeclaringLine ==
    pc = "found" =>
        find.answer = (IF ~find.exists \/ DeclaringLines(find) = {} THEN {}
                       ELSE {CHOOSE i \in DeclaringLines(find) :
                                \A j \in DeclaringLines(find) : i <= j})

-----------------------------------------------------------------------------
\* The id when the listing has an item with it, else none.
ConfirmedId(listing, id) ==
    IF id # NoId /\ \E i \in 1..Len(listing) : listing[i].id = id THEN id ELSE NoId

\* The id of the first listed item with the display name, ignoring case.
FirstNamed(listing, name) ==
    IF \E i \in 1..Len(listing) : EqualsIgnoreCase(listing[i].displayName, name)
    THEN listing[CHOOSE i \in 1..Len(listing) :
                    /\ EqualsIgnoreCase(listing[i].displayName, name)
                    /\ \A j \in 1..(i - 1) :
                          ~EqualsIgnoreCase(listing[j].displayName, name)].id
    ELSE NoId

FirstNamedNonBlank(listing, name) ==
    IF IsNullOrWhiteSpace(name) THEN NoId ELSE FirstNamed(listing, name)

\* The first candidate that found an item.
FirstFound(candidates) ==
    IF \E k \in 1..Len(candidates) : candidates[k] # NoId
    THEN candidates[CHOOSE k \in 1..Len(candidates) :
                        /\ candidates[k] # NoId
                        /\ \A j \in 1..(k - 1) : candidates[j] = NoId]
    ELSE NoId

\* Criterion (a): the cached mapping, then the byte-reversed logical id.
ByLogicalIdCriterion ==
    IF model.platformLogicalId = NoId THEN NoId
    ELSE FirstFound(<<ConfirmedId(loc.listing,
                                  GetMappedItemId(logicalMap, loc.workspaceId,
                                                  model.platformLogicalId)),
                      ConfirmedId(loc.listing,
                                  TryMapLogicalIdToItemId(model.platformLogicalId))>>)

\* Criteria (b) and (c): the desired name, then the previously cached name,
\* the platform name and the declared name.
ByNameCriteria ==
    <<FirstNamed(loc.listing, loc.itemName),
      FirstNamedNonBlank(loc.listing, config.previousModelName),
      FirstNamedNonBlank(loc.listing, model.platformName),
      FirstNamedNonBlank(loc.listing, model.databaseName)>>

\* C27: the existing item is the one found by the earliest criterion that
\* finds one: logical id (cached mapping confirmed in the listing, then the
\* byte-reversed candidate), desired name, previously cached name, platform
\* name, declared name; the name criteria are consulted only when the
\* logical id found nothing, and the item a fallback name selects is the
\* one renamed.
C27_EarliestCriterionSelects ==
    [][ /\ pc = "byId" => loc'.existingItemId = ByLogicalIdCriterion
        /\ pc = "byName" /\ loc.existingItemId # NoId =>
                loc'.existingItemId = loc.existingItemId /\ calls' = calls
        /\ pc = "byName" /\ loc.existingItemId = NoId /\ pc' = "apply" =>
                loc'.existingItemId = FirstFound(ByNameCriteria)
        /\ pc = "byName" /\ loc.existingItemId = NoId /\ Len(calls') > Len(calls) =>
                /\ calls'[Len(calls')].op = "rename"
                /\ calls'[Len(calls')].id = FirstFound(ByNameCriteria)
                /\ ByNameCriteria[1] = NoId
      ]_vars

\* An item selected by a fallback name while an item with a later fallback
\* name is listed too.
C27_Witness ==
    /\ pc = "apply"
    /\ model.platformLogicalId = NoId
    /\ loc.renamed
    /\ loc.existingItemId # NoId
    /\ FirstNamed(loc.listing, loc.itemName) = NoId
    /\ \E i \in 1..Len(loc.listing) :
          /\ loc.listing[i].id # loc.existingItemId
          /\ EqualsIgnoreCase(loc.listing[i].displayName, model.databaseName)

-----------------------------------------------------------------------------
\* The first name of the sequence that is not blank, trimmed; "" when all
\* are blank.
FirstNonBlank(names) ==
    IF \E k \in 1..Len(names) : ~IsNullOrWhiteSpace(names[k])
    THEN Trim(names[CHOOSE k \in 1..Len(names) :
                        /\ ~IsNullOrWhiteSpace(names[k])
                        /\ \A j \in 1..(k - 1) : IsNullOrWhiteSpace(names[j])])
    ELSE ""

\* The explicit override, the platform display name and the declared name.
NameSources == <<config.modelName, model.platformName, model.databaseName>>

\* C28: a deploy that has its workspace id takes as the desired name the
\* first non-blank of the explicit override, the platform display name and
\* the declared name, without asking; when all three are blank it asks the
\* operator, except in CI, where it ends in an error without a remote call.
C28_DesiredNameOrder ==
    [][ pc = "deploy" /\ ~IsNullOrEmpty(ExtractWorkspaceId(config.workspaceUrl)) =>
            IF FirstNonBlank(NameSources) # ""
            THEN /\ loc'.itemName = FirstNonBlank(NameSources)
                 /\ io'.prompts = io.prompts
            ELSE IF env.ci
            THEN /\ pc' = "done"
                 /\ ~result'.success
                 /\ calls' = calls
                 /\ io'.prompts = io.prompts
            ELSE /\ "Semantic model name" \in io'.prompts
                 /\ loc'.itemName = PromptedName
      ]_vars

\* A CI deploy of a model without any name has ended.
C28_Witness ==
    /\ pc = "done"
    /\ env.ci
    /\ FirstNonBlank(<<cli.name, model.platformName, model.databaseName>>) = ""
    /\ loc.workspaceId = ""
    /\ ExtractWorkspaceId(config.workspaceUrl) # ""
    /\ ~result.success
    /\ calls = <<>>

-----------------------------------------------------------------------------
\* C29: a deploy that reports success has seen, in status Succeeded, the
\* operation of every request of its own that the service answered with
\* 202 Accepted.
C29_SuccessOnlyAfterSucceeded ==
    (pc = "done" /\ cmd = "deploy" /\ result.success) =>
        \A i \in 1..Len(loc.accepted) :
            \E j \in 1..Len(loc.succeeded) : loc.succeeded[j] = loc.accepted[i]

-----------------------------------------------------------------------------
\* C30: a deploy that found no existing item makes one create call, which
\* carries the name and the definition, and no update-definition call for
\* the item it created.
C30_CreateIsOneCall ==
    (cmd = "deploy" /\ CallsOf({"create"}) # {}) =>
        /\ Cardinality(CallsOf({"create"})) = 1
        /\ CallsOf({"update"}) = {}

-----------------------------------------------------------------------------
\* The item the deploy found: the one it selected, or the one a fallback
\* name hit and whose rename was refused.
FoundItemId ==
    IF loc.existingItemId # NoId THEN loc.existingItemId
    ELSE IF calls # <<>> /\ calls[Len(calls)].op = "rename" THEN calls[Len(calls)].id
    ELSE NoId

\* C31: when a deploy of a model with a logical id has found an existing
\* item, by whichever path, the mapping cache maps (workspaceId, logicalId)
\* to that item's id once the deploy has ended.
C31_HitIsWrittenBack ==
    (Finished /\ model.platformLogicalId # NoId /\ FoundItemId # NoId) =>
        GetMappedItemId(logicalMap, loc.workspaceId, model.platformLogicalId) = FoundItemId

-----------------------------------------------------------------------------
\* C32: once a deploy has taken its token, the in-memory AuthConfig holds
\* no client secret, in either mode and whatever the secret's source.
C32_NoSecretAfterToken ==
    (cmd = "deploy" /\ Reconciling) => config.clientSecret = ""

-----------------------------------------------------------------------------
\* The mode each source contributes, "" when it contributes none.
CacheMode == IF Load(cacheFile) = Null THEN "" ELSE Load(cacheFile)[1].mode

EnvVarMode ==
    IF \A v \in {env.workspaceUrl, env.clientId, env.clientSecret, env.tenantId} :
            IsNullOrWhiteSpace(v)
    THEN ""
    ELSE IF ~IsNullOrWhiteSpace(env.clientId) /\ ~IsNullOrWhiteSpace(env.tenantId)
    THEN "service-principal"
    ELSE "interactive"

LegacyMode == IF env.authJson.kind = "json" THEN env.authJson.value.mode ELSE ""

\* Whether a flag or a source gives a client id, and a tenant id.
HasClientId ==
    \E v \in {cli.clientId, env.clientId,
              IF Load(cacheFile) = Null THEN "" ELSE Load(cacheFile)[1].clientId,
              IF env.authJson.kind = "json" THEN env.authJson.value.clientId ELSE ""} :
        ~IsNullOrWhiteSpace(v)

HasTenantId ==
    \E v \in {cli.tenantId, env.tenantId,
              IF Load(cacheFile) = Null THEN "" ELSE Load(cacheFile)[1].tenantId,
              IF env.authJson.kind = "json" THEN env.authJson.value.tenantId ELSE ""} :
        ~IsNullOrWhiteSpace(v)

NoModeFlag == ~cli.interactive /\ ~cli.servicePrincipal

\* C33: without a mode flag and with no source giving a mode, a deploy's
\* mode is service-principal when a client id and a tenant id are at hand,
\* else interactive in CI, else the operator's answer to the mode prompt;
\* the individual environment variables, when any is set, give mode
\* service-principal if client id and tenant id are both set and
\* interactive otherwise.
C33_ModeInference ==
    [][ (pc = "resolve" /\ cmd = "deploy" /\ NoModeFlag) =>
          /\ (CacheMode = "" /\ EnvVarMode = "" /\ IsNullOrWhiteSpace(LegacyMode)) =>
                IF HasClientId /\ HasTenantId
                THEN /\ config'.mode = "service-principal"
                     /\ "Select authentication mode:" \notin io'.prompts
                ELSE IF env.ci
                THEN /\ config'.mode = "interactive"
                     /\ "Select authentication mode:" \notin io'.prompts
                ELSE /\ config'.mode \in {"interactive", "service-principal"}
                     /\ "Select authentication mode:" \in io'.prompts
          /\ (CacheMode = "" /\ EnvVarMode # "") => config'.mode = EnvVarMode
      ]_vars

\* A deploy whose mode was inferred from a client id and a tenant id.
C33_Witness ==
    /\ cmd = "deploy"
    /\ pc = "token"
    /\ NoModeFlag
    /\ io.saves = 0
    /\ CacheMode = "" /\ EnvVarMode = "" /\ IsNullOrWhiteSpace(LegacyMode)
    /\ config.mode = "service-principal"
    /\ "Select authentication mode:" \notin io.prompts

-----------------------------------------------------------------------------
\* The path segment after the first segment "operations" of a Location.
SegmentAfterOperations(location) ==
    IF location = Null THEN ""
    ELSE LET path == location[1]
             at == {k \in 1..Len(path) : EqualsIgnoreCase(path[k], "operations")}
         IN  IF at = {} THEN ""
             ELSE LET first == CHOOSE k \in at : \A j \in at : k <= j
                  IN  IF first < Len(path) THEN path[first + 1] ELSE ""

-----------------------------------------------------------------------------
\* The position of the last event `what` by anyone, and of the event
\* `what` of process p; 0 when there is none.
LastEvent(what) ==
    IF \E i \in 1..Len(race.events) : race.events[i][2] = what
    THEN CHOOSE i \in 1..Len(race.events) :
            /\ race.events[i][2] = what
            /\ \A j \in (i + 1)..Len(race.events) : race.events[j][2] # what
    ELSE 0

EventOf(p, what) ==
    IF \E i \in 1..Len(race.events) : race.events[i] = <<p, what>>
    THEN CHOOSE i \in 1..Len(race.events) : race.events[i] = <<p, what>>
    ELSE 0

BothFinished == pc = "race" /\ \A p \in RaceProcs : race.procs[p].pc = "done"

\* C36: when two unsynchronized invocations have finished, each cache file
\* is what the last write to it wrote: the auth cache is the last writer's
\* AuthConfig, the map file is what the last writer read plus its own
\* entry, and a mapping the other invocation stored after the last
\* writer's read is gone.
C36_LastWriterWins ==
    BothFinished =>
        LET w == race.events[LastEvent("write-map")][1]
            o == CHOOSE p \in RaceProcs : p # w
            a == race.events[LastEvent("write-auth")][1]
        IN  /\ cacheFile = Save(RaceConfig(a))
            /\ logicalMap = SaveLogicalMap(SetItem(race.procs[w].map[1], RaceKey(w),
                                                   race.procs[w].itemId))
            /\ GetMappedItemId(logicalMap, "W1", RaceKey(w)[2]) = race.procs[w].itemId
            /\ EventOf(w, "read-map") < EventOf(o, "write-map") =>
                  GetMappedItemId(logicalMap, "W1", RaceKey(o)[2]) = NoId

\* Both finished, and the first invocation's mapping was lost.
C36_Witness ==
    /\ BothFinished
    /\ EventOf(2, "read-map") < EventOf(1, "write-map")
    /\ EventOf(1, "write-map") < EventOf(2, "write-map")
    /\ GetMappedItemId(logicalMap, "W1", RaceKey(1)[2]) = NoId
    /\ GetMappedItemId(logicalMap, "W1", RaceKey(2)[2]) = race.procs[2].itemId

-----------------------------------------------------------------------------
\* C37: in one deploy the mutating calls exclude each other: at most one
\* create, at most one rename, never both, and a create only when no item
\* was selected.
C37_OneMutation ==
    cmd = "deploy" =>
        /\ Cardinality(CallsOf({"create"})) <= 1
        /\ Cardinality(CallsOf({"rename"})) <= 1
        /\ Cardinality(CallsOf({"create", "rename"})) <= 1
        /\ CallsOf({"create"}) # {} =>
              /\ loc.existingItemId = NoId
              /\ ByLogicalIdCriterion = NoId
              /\ \A k \in 1..Len(ByNameCriteria) : ByNameCriteria[k] = NoId

\* A deploy that created an item, and one that renamed an item.
C37_Witness ==
    /\ Finished
    /\ CallsOf({"create"}) # {}
    /\ result.success
    /\ loc.listing # <<>>

-----------------------------------------------------------------------------
\* Repeating a deploy (checked under SpecRepeat).

\* The repetition of a successful deploy has ended.
Repeated == last.ran /\ pc = "done"

\* C38: repeating a successful deploy with the same inputs, in a workspace
\* that only the first deploy changed, issues no create and no rename, leaves
\* the workspace's items as they were, sends its update-definition to the
\* item of the first deploy, and a success is reported as a plain update.
C38_RepeatIsPlainUpdate ==
    Repeated =>
        /\ CallsOf({"create", "rename"}) = {}
        /\ registry = last.registry
        /\ \A i \in CallsOf({"update"}) : calls[i].id = last.itemId
        /\ result.success =>
              /\ result.message = "Successfully updated semantic model"
              /\ CallsOf({"update"}) # {}

\* The listings of both deploys were answered, and the item of the first
\* deploy exists: its create request was not one that was only accepted.
BothListedAndItemExists ==
    /\ \A i \in CallsOf({"list"}) : calls[i].answer = "2xx"
    /\ \A i \in 1..Len(last.calls) :
          last.calls[i].op = "list" => last.calls[i].answer = "2xx"
    /\ IndexById(last.registry, last.itemId) # 0

\* The same statement for those deploys.
C38_RepeatAfterCompletedDeploy ==
    (Repeated /\ BothListedAndItemExists) =>
        /\ CallsOf({"create", "rename"}) = {}
        /\ registry = last.registry
        /\ \A i \in CallsOf({"update"}) : calls[i].id = last.itemId
        /\ result.success =>
              /\ result.message = "Successfully updated semantic model"
              /\ CallsOf({"update"}) # {}

-----------------------------------------------------------------------------
\* The expiry saved with an acquired token (checked under SpecResolve).

\* This step ran a flow of the token service to its end and saved the
\* configuration with the token it returned.
AcquiredAndSaved ==
    /\ Len(io'.tokenFlows) > Len(io.tokenFlows)
    /\ io'.tokenFlows[Len(io'.tokenFlows)] # "azure-cli"
    /\ io'.saves > io.saves
    /\ Load(cacheFile') # Null
    /\ ~IsNullOrEmpty(Load(cacheFile')[1].accessToken)

\* C39: a token that a deploy or login acquires and saves is saved with an
\* expiry recorded for it in that run: present, later than the acquisition,
\* and not the expiry of an earlier token.
C39_TokenSavedWithItsExpiry ==
    [][AcquiredAndSaved =>
        Load(cacheFile')[1].accessTokenExpiresOn = {now + TokenLifetimeMinutes}]_vars

\* The same statement for the interactive flows.
C39_InteractiveTokenSavedWithItsExpiry ==
    [][(AcquiredAndSaved /\ ToLower(config'.mode) = "interactive") =>
        Load(cacheFile')[1].accessTokenExpiresOn = {now + TokenLifetimeMinutes}]_vars

-----------------------------------------------------------------------------
\* Cache files that cannot be written (checked under SpecWrite).

\* The remote create or update of the deploy completed: every call was
\* answered 2xx, one of them was a create or an update-definition, and every
\* operation that was accepted was seen in status Succeeded.
RemoteCompleted ==
    /\ CallsOf({"create", "update"}) # {}
    /\ \A i \in 1..Len(calls) : calls[i].answer = "2xx"
    /\ \A i \in 1..Len(loc.accepted) :
          \E j \in 1..Len(loc.succeeded) : loc.succeeded[j] = loc.accepted[i]

\* A rename of the deploy was answered 2xx.
RenameCompleted == \E i \in CallsOf({"rename"}) : calls[i].answer = "2xx"

\* C40: the result reflects the remote outcome: a deploy whose remote create
\* or update completed reports success, and a deploy that completed a rename
\* goes on to the update-definition of the item, whether or not the auth
\* cache and the logical-id map could be written.
C40_ResultReflectsRemote ==
    Finished =>
        /\ RemoteCompleted => result.success
        /\ RenameCompleted => CallsOf({"update"}) # {}

====
